---------------------------- MODULE Spec2Model ----------------------------
(***************************************************************************)
(* The sampling engine of the nxp-simtemp driver (kernel/nxp_simtemp.c):   *)
(* the hrtimer callback, the deferred sample work, the kfifo sample        *)
(* buffer, the blocking / non-blocking read path, the control commands     *)
(* (ioctl), the enabled attribute and the teardown path.                   *)
(*                                                                         *)
(* Every thread of control is a process with a program counter; a step is  *)
(* one action.  Accesses that the driver makes without a lock are separate *)
(* steps, so that the interleavings the kernel allows are the behaviours   *)
(* of the model.                                                           *)
(***************************************************************************)
EXTENDS Integers, Sequences, FiniteSets, TLC

\* ------------------------------------------------------------------------
\* Program constants (kernel/nxp_simtemp_ioctl.h, second header block)

SIMTEMP_BUFFER_SIZE == 64

SIMTEMP_FLAG_NEW_SAMPLE == 1

SIMTEMP_FLAG_THRESHOLD_CROSSED == 2

SIMTEMP_MODE_NORMAL == 0

SIMTEMP_MODE_NOISY == 1

SIMTEMP_MODE_RAMP == 2

SIMTEMP_MODE_MAX == 3

SIMTEMP_DEFAULT_SAMPLING_MS == 100

SIMTEMP_DEFAULT_THRESHOLD_MC == 45000

SIMTEMP_MIN_SAMPLING_MS == 1

SIMTEMP_MAX_SAMPLING_MS == 10000

SIMTEMP_BASE_TEMP_MC == 25000

SIMTEMP_TEMP_RANGE_MC == 30000

SIMTEMP_NOISE_RANGE_MC == 2000

\* sizeof(struct simtemp_sample): 8 + 4 + 4 bytes, packed
SAMPLE_SIZE == 16

\* errno values returned by the driver (positive here, negated in the C)
EOVERFLOW == 75

\* ------------------------------------------------------------------------
\* Control command codes (nxp_simtemp_ioctl.h).  A command code is kept as
\* the fields _IOC() packs into it: direction, type, number and size.

SIMTEMP_IOC_MAGIC == "S"

SIMTEMP_IOC_MAXNR == 7

\* _IOC(dir, type, nr, size)
IOC(dir, type, nr, size) ==
    [dir |-> dir, type |-> type, nr |-> nr, size |-> size]

\* _IO, _IOR, _IOW with sizeof(struct simtemp_config) = 16 and
\* sizeof(struct simtemp_ioctl_stats) = 40
SIMTEMP_IOC_GET_CONFIG == IOC("R", SIMTEMP_IOC_MAGIC, 1, 16)

SIMTEMP_IOC_SET_CONFIG == IOC("W", SIMTEMP_IOC_MAGIC, 2, 16)

SIMTEMP_IOC_GET_STATS == IOC("R", SIMTEMP_IOC_MAGIC, 3, 40)

SIMTEMP_IOC_RESET_STATS == IOC("-", SIMTEMP_IOC_MAGIC, 4, 0)

SIMTEMP_IOC_ENABLE == IOC("-", SIMTEMP_IOC_MAGIC, 5, 0)

SIMTEMP_IOC_DISABLE == IOC("-", SIMTEMP_IOC_MAGIC, 6, 0)

SIMTEMP_IOC_FLUSH_BUFFER == IOC("-", SIMTEMP_IOC_MAGIC, 7, 0)

\* the value of cmd before a caller's first ioctl()
NoCommand == IOC("-", "-", 0, 0)

\* ------------------------------------------------------------------------
\* Bounds of the model

\* samples the generator may compute in the interleaving specifications
MaxTicks == 3

\* samples the generator may compute in the specification of the two readers
MaxSamples == 2

\* user calls (read, ioctl, attribute store) started in one behaviour
MaxCalls == 3

\* samples the generator may compute in the buffer-filling specification,
\* counted above the buffer capacity
MaxOverflow == 2

\* samples the generator computes in the waveform specification (one period
\* of the ramp)
WaveTicks == 200

\* the largest value of the generator's counter in the specification of the
\* waveform generator as a function
MaxCounter == 24

\* ------------------------------------------------------------------------
\* Threads of control

Readers == {"r1", "r2"}

Callers == {"c1", "c2"}

Writers == {"s1"}

\* the raw 32-bit values get_random_bytes() may deliver (a sample of them)
RandomDraws == {-2147483647, -4001, 0, 1999, 2147483647}

\* the structures user space may hand to SIMTEMP_IOC_SET_CONFIG
ConfigChoices ==
    { [sampling_ms |-> 200, threshold_mC |-> 26910, mode |-> SIMTEMP_MODE_NORMAL],
      [sampling_ms |-> 50,  threshold_mC |-> 26910, mode |-> SIMTEMP_MODE_RAMP],
      [sampling_ms |-> 0,   threshold_mC |-> 20000, mode |-> SIMTEMP_MODE_NOISY],
      [sampling_ms |-> 300, threshold_mC |-> 20000, mode |-> SIMTEMP_MODE_MAX] }

\* byte counts user space may pass to read()
ReadCounts == {8, 16}

\* ------------------------------------------------------------------------
\* C integer arithmetic

\* C division truncates toward zero
CDiv(a, b) ==
    IF a >= 0 THEN a \div b ELSE -((-a) \div b)

\* C remainder has the sign of the dividend
CMod(a, b) ==
    a - b * CDiv(a, b)

\* An unsigned int is kept as its two's-complement bit pattern (TLC's
\* integers are 32 bits wide): the pattern x < 0 stands for x + 2^32.
\* U32Gt(x, y): x > y as unsigned ints, for a pattern x and 0 <= y.
U32Gt(x, y) ==
    x < 0 \/ x > y

\* x & (SIMTEMP_BUFFER_SIZE - 1) on the bit pattern x
KfifoMask(x) ==
    x % SIMTEMP_BUFFER_SIZE


\* ------------------------------------------------------------------------
\* Waveform generator

\* (counter * 300) in 32-bit int arithmetic, as a two's-complement pattern,
\* computed without leaving the 32-bit range: 300 c mod 2^32 =
\* 4 * (75 c mod 2^30), and c = a * 2^24 + b.
Mul300(c) ==
    LET a == c \div 16777216
        b == c % 16777216
        u == ((((75 * a) % 64) * 16777216) + ((75 * b) % 1073741824)) % 1073741824
    IN  IF u < 536870912 THEN 4 * u ELSE 4 * (u - 1073741824)

\* the piecewise-linear sine approximation of simtemp_get_base_temperature
SineApprox(angle) ==
    IF angle < 1570 THEN CDiv(angle * 1000, 1570)
    ELSE IF angle < 4710 THEN 1000 - CDiv((angle - 1570) * 1000, 1570)
    ELSE -CDiv((angle - 4710) * 1000, 1570)

\* the ramp of SIMTEMP_MODE_RAMP
RampValue(cnt) ==
    LET k    == CMod(cnt, 200)
        up   == (k <= 100)
        frac == CMod(k, 100)
    IN  IF up THEN CDiv(frac * SIMTEMP_TEMP_RANGE_MC, 100)
        ELSE CDiv((200 - k) * SIMTEMP_TEMP_RANGE_MC, 100)

\* simtemp_get_base_temperature: m is simtemp->mode, cnt the static counter
\* before the call, raw the 32 bits get_random_bytes() delivers
simtemp_get_base_temperature(m, cnt, raw) ==
    LET angle == CMod(Mul300(cnt), 6280)
    IN  IF m = SIMTEMP_MODE_NORMAL
          THEN SIMTEMP_BASE_TEMP_MC + CDiv(10000 * SineApprox(angle), 1000)
        ELSE IF m = SIMTEMP_MODE_NOISY
          THEN SIMTEMP_BASE_TEMP_MC
               + CDiv(SIMTEMP_TEMP_RANGE_MC * SineApprox(angle), 1000)
               + CMod(raw, SIMTEMP_NOISE_RANGE_MC)
        ELSE IF m = SIMTEMP_MODE_RAMP
          THEN SIMTEMP_BASE_TEMP_MC + RampValue(cnt)
        ELSE 0

\* a faulty threshold test that flags the level instead of the edge (every
\* sample above the threshold); C4 is checked to reject it
ThresholdCrossed_Level(last, cur, thr) ==
    cur > thr

\* the threshold test of simtemp_generate_sample
ThresholdCrossed(last, cur, thr) ==
    \/ (last < thr /\ cur >= thr)
    \/ (last >= thr /\ cur < thr)

\* ------------------------------------------------------------------------
\* Text of the attributes.  A text is a sequence of characters; the texts
\* user space writes are at most MaxTextLen characters long, so every number
\* they denote fits an int and kstrto*() never reports -ERANGE.

DecimalDigits == <<"0", "1", "2", "3", "4", "5", "6", "7", "8", "9">>

IsDigit(ch) ==
    \E d \in 1 .. 10 : DecimalDigits[d] = ch

DigitVal(ch) ==
    (CHOOSE d \in 1 .. 10 : DecimalDigits[d] = ch) - 1

\* _parse_integer: the number of leading decimal digits of text t
RECURSIVE DigitPrefixLen(_)
DigitPrefixLen(t) ==
    IF t = <<>> \/ ~IsDigit(Head(t)) THEN 0 ELSE 1 + DigitPrefixLen(Tail(t))

\* _parse_integer: the value of the first n characters of t, all digits
RECURSIVE DigitsValue(_, _)
DigitsValue(t, n) ==
    IF n = 0 THEN 0 ELSE 10 * DigitsValue(t, n - 1) + DigitVal(t[n])

\* _kstrtoull: digits, then at most one newline, then the end of the text
kstrtoull_unsigned(t) ==
    LET n    == DigitPrefixLen(t)
        rest == SubSeq(t, n + 1, Len(t))
    IN  IF n = 0 THEN [err |-> "EINVAL", val |-> 0]
        ELSE IF rest = <<>> \/ rest = <<"\n">>
          THEN [err |-> "ok", val |-> DigitsValue(t, n)]
        ELSE [err |-> "EINVAL", val |-> 0]

\* kstrtouint(buf, 10, &val): an optional '+', then _kstrtoull
kstrtouint(t) ==
    IF t # <<>> /\ Head(t) = "+" THEN kstrtoull_unsigned(Tail(t))
    ELSE kstrtoull_unsigned(t)

\* kstrtoint(buf, 10, &val): a '-' and _kstrtoull, or as kstrtouint
kstrtoint(t) ==
    IF t # <<>> /\ Head(t) = "-"
      THEN LET r == kstrtoull_unsigned(Tail(t))
           IN  [err |-> r.err, val |-> -r.val]
      ELSE kstrtouint(t)

\* sprintf("%u"): the decimal digits of v >= 0
RECURSIVE FormatUint(_)
FormatUint(v) ==
    IF v < 10 THEN <<DecimalDigits[v + 1]>>
    ELSE FormatUint(v \div 10) \o <<DecimalDigits[(v % 10) + 1]>>

\* sprintf("%d")
FormatInt(v) ==
    IF v < 0 THEN <<"-">> \o FormatUint(-v) ELSE FormatUint(v)

\* a text without its final newline, if it has one
StripNewline(t) ==
    IF t # <<>> /\ t[Len(t)] = "\n" THEN SubSeq(t, 1, Len(t) - 1) ELSE t

\* sysfs_streq: equality of two texts up to one final newline
sysfs_streq(a, b) ==
    StripNewline(a) = StripNewline(b)

\* mode_names[] of mode_show, and the words mode_store compares with
mode_names ==
    << <<"n", "o", "r", "m", "a", "l">>,
       <<"n", "o", "i", "s", "y">>,
       <<"r", "a", "m", "p">> >>

\* ------------------------------------------------------------------------
\* State

VARIABLES
    sampling_ms,    \* simtemp->sampling_ms
    threshold_mC,   \* simtemp->threshold_mC
    mode,           \* simtemp->mode
    enabled,        \* simtemp->enabled
    last_temp_mC,   \* simtemp->last_temp_mC
    counter,        \* the static counter of simtemp_get_base_temperature
    nexp,           \* history: expiries of the timer with the device enabled,
                    \* counted by the specification of the expiries only
    stats,          \* simtemp->stats
    kfifo_in,       \* sample_buffer.kfifo.in  (unsigned, as a bit pattern)
    kfifo_out,      \* sample_buffer.kfifo.out (unsigned, as a bit pattern)
    kfifo_data,     \* sample_buffer.buf[0 .. SIMTEMP_BUFFER_SIZE-1]
    buffer_lock,    \* holder of simtemp->buffer_lock, or "free"
    config_lock,    \* holder of simtemp->config_lock, or "free"
    timer,          \* simtemp->timer: "inactive" or "enqueued"
    timer_ms,       \* the period the pending expiry was armed with (0: none)
    work_pending,   \* WORK_STRUCT_PENDING of simtemp->sample_work
    wpc,            \* position of the worker inside simtemp_generate_sample
    wsample,        \* its local variable sample
    wret,           \* its local variable ret
    w_in,           \* the value of kfifo.in that kfifo_put loaded
    w_thr,          \* the value of threshold_mC the threshold test loaded first
    rpc,            \* position of each reader inside simtemp_read
    rnonblock,      \* file->f_flags & O_NONBLOCK of each reader
    awake,          \* a waiting reader is runnable (not asleep in schedule())
    rsample,        \* each reader's local variable sample
    rret,           \* what each reader's last read() returned
    l_out,          \* the value of kfifo.out that kfifo_get loaded
    rcount,         \* the argument count of each reader's read()
    l_stat,         \* the value of the statistics counter that `++' loaded
    pmask,          \* the mask each reader's last poll() returned
    cpc,            \* position of each ioctl caller inside simtemp_ioctl
    ccfg,           \* its local variable config
    ccmd,           \* the case label its argument cmd matched
    craw,           \* its argument cmd
    cret,           \* what each caller's last ioctl() returned
    spc,            \* position of each attribute writer inside enabled_store
    sret,           \* outcome of each writer's last attribute access: "count"
                    \* or the error of a store, the attribute's name for a show
    sbuf,           \* the text buffer of each writer's last attribute access
    rmpc,           \* position of simtemp_remove
    now,            \* ktime_get_ns(): the monotonic clock
    ncalls,         \* history: user calls started
    lastcall,       \* history: the thread that started the last user call
    nflush,         \* history: SIMTEMP_IOC_FLUSH_BUFFER commands started
    pushed,         \* history: the samples kfifo_put accepted, in order
    popped,         \* history: the samples kfifo_get handed out, in order
    mine,           \* history: per thread and configuration field, the value
                    \* the thread stored last if no other thread has stored
                    \* that field since
    blockedAt       \* history: Len(pushed) when a reader began to wait
                    \* (-1: its current or last read did not wait)

cfgVars   == <<sampling_ms, threshold_mC, mode>>

genVars   == <<last_temp_mC, counter, now, nexp>>

fifoVars  == <<kfifo_in, kfifo_out, kfifo_data>>

timerVars == <<timer, timer_ms>>

workVars  == <<wpc, wsample, wret, w_in, w_thr>>

entryVars == <<rcount, l_stat, pmask>>

readVars  == <<rpc, rnonblock, rsample, rret, l_out, blockedAt, entryVars>>

ctlVars   == <<cpc, ccfg, ccmd, craw, cret>>

attrVars  == <<spc, sret, sbuf>>

histVars  == <<ncalls, lastcall, nflush, pushed, popped, mine>>

vars == <<cfgVars, enabled, genVars, stats, fifoVars, buffer_lock, config_lock,
          timerVars, work_pending, workVars, readVars, awake, ctlVars,
          attrVars, rmpc, histVars>>

\* a zeroed struct simtemp_sample (devm_kzalloc)
NoSample == [timestamp_ns |-> 0, temp_mC |-> 0, flags |-> 0]

\* no configuration field is known to be a thread's own last store
NoneMine == [sampling_ms |-> <<>>, threshold_mC |-> <<>>, mode |-> <<>>]

\* the device-tree nodes the device may be probed with: each property is
\* present with a value, or absent
DtNodes ==
    { [has_sampling |-> FALSE, sampling_ms |-> 0,
       has_threshold |-> FALSE, threshold_mC |-> 0],
      [has_sampling |-> TRUE, sampling_ms |-> 250,
       has_threshold |-> TRUE, threshold_mC |-> 26910],
      [has_sampling |-> TRUE, sampling_ms |-> 0,
       has_threshold |-> FALSE, threshold_mC |-> 0] }

\* simtemp_parse_dt: of_property_read_u32 / _s32, the default for an absent
\* property
simtemp_parse_dt(np) ==
    [dt_sampling_ms  |-> IF np.has_sampling THEN np.sampling_ms
                         ELSE SIMTEMP_DEFAULT_SAMPLING_MS,
     dt_threshold_mC |-> IF np.has_threshold THEN np.threshold_mC
                         ELSE SIMTEMP_DEFAULT_THRESHOLD_MC]

\* a faulty probe that starts the timer; C29 is checked to reject it
ProbeTimer_Started ==
    /\ timer = "enqueued"
    /\ timer_ms = SIMTEMP_DEFAULT_SAMPLING_MS

\* simtemp_probe: hrtimer_init (the timer is not started)
ProbeTimer ==
    /\ timer = "inactive"
    /\ timer_ms = 0

\* simtemp_probe: the zeroed device structure (devm_kzalloc), the locks, the
\* wait queue and the kfifo; no thread is inside the driver
ProbeState ==
    /\ last_temp_mC = SIMTEMP_BASE_TEMP_MC
    /\ stats = [updates |-> 0, alerts |-> 0, read_calls |-> 0,
                poll_calls |-> 0, last_error |-> 0]
    /\ kfifo_in = 0
    /\ kfifo_out = 0
    /\ kfifo_data = [i \in 0 .. (SIMTEMP_BUFFER_SIZE - 1) |-> NoSample]
    /\ buffer_lock = "free"
    /\ config_lock = "free"
    /\ work_pending = FALSE
    /\ wsample = NoSample
    /\ wret = 0
    /\ w_in = 0
    /\ w_thr = 0
    /\ rpc = [r \in Readers |-> "idle"]
    /\ rnonblock = [r \in Readers |-> FALSE]
    /\ awake = [r \in Readers |-> FALSE]
    /\ rsample = [r \in Readers |-> NoSample]
    /\ rret = [r \in Readers |-> "none"]
    /\ l_out = [r \in Readers |-> 0]
    /\ rcount = [r \in Readers |-> 0]
    /\ l_stat = [r \in Readers |-> 0]
    /\ pmask = [r \in Readers |-> {}]
    /\ cpc = [c \in Callers |-> "idle"]
    /\ ccfg = [c \in Callers |-> [sampling_ms |-> 0, threshold_mC |-> 0, mode |-> 0]]
    /\ ccmd = [c \in Callers |-> "none"]
    /\ craw = [c \in Callers |-> NoCommand]
    /\ cret = [c \in Callers |-> "none"]
    /\ spc = [s \in Writers |-> "idle"]
    /\ sret = [s \in Writers |-> "none"]
    /\ sbuf = [s \in Writers |-> <<>>]
    /\ rmpc = "idle"
    /\ now = 0
    /\ nexp = 0
    /\ ncalls = 0
    /\ lastcall = "none"
    /\ nflush = 0
    /\ pushed = <<>>
    /\ popped = <<>>
    /\ mine = [t \in Callers \cup Writers |-> NoneMine]
    /\ blockedAt = [r \in Readers |-> -1]

\* simtemp_probe after the device-tree part: everything but sampling_ms and
\* threshold_mC
ProbeRest ==
    /\ mode = SIMTEMP_MODE_NORMAL
    /\ enabled = FALSE
    /\ counter = 0
    /\ wpc = "idle"
    /\ ProbeTimer
    /\ ProbeState

\* simtemp_probe without device-tree node: the state a freshly probed device
\* is in
Init ==
    /\ sampling_ms = SIMTEMP_DEFAULT_SAMPLING_MS
    /\ threshold_mC = SIMTEMP_DEFAULT_THRESHOLD_MC
    /\ ProbeRest

\* simtemp_probe with a device-tree node
InitDT ==
    \E np \in DtNodes :
      /\ sampling_ms = simtemp_parse_dt(np).dt_sampling_ms
      /\ threshold_mC = simtemp_parse_dt(np).dt_threshold_mC
      /\ ProbeRest

\* the values of simtemp->mode handed to the waveform generator as a
\* function: the three modes and two values that are no mode
GenModes == 0 .. (SIMTEMP_MODE_MAX + 1)

\* values of the static counter at and beyond the first wrap of
\* counter * 300 in 32-bit arithmetic (300 * 7158279 > 2^31 - 1)
WrapCounters == {7158278, 7158279, 14316558, 2147483646}

\* the waveform generator as a function of (mode, counter): an enabled
\* device whose worker is about to compute a sample, for every mode value
\* and every counter up to MaxCounter or in WrapCounters
InitGen ==
    /\ sampling_ms = SIMTEMP_DEFAULT_SAMPLING_MS
    /\ threshold_mC = SIMTEMP_DEFAULT_THRESHOLD_MC
    /\ mode \in GenModes
    /\ enabled = TRUE
    /\ counter \in (0 .. MaxCounter) \cup WrapCounters
    /\ wpc = "compute"
    /\ timer = "enqueued"
    /\ timer_ms = SIMTEMP_DEFAULT_SAMPLING_MS
    /\ ProbeState

\* history: thread t stores v into configuration field f
NoteStore(t, f, v) ==
    [u \in Callers \cup Writers |->
        IF u = t THEN [mine[u] EXCEPT ![f] = <<v>>]
        ELSE [mine[u] EXCEPT ![f] = <<>>]]

\* ------------------------------------------------------------------------
\* kfifo (include/linux/kfifo.h), as the driver uses it

\* kfifo_len: in - out, an unsigned int kept as a bit pattern
kfifo_len == kfifo_in - kfifo_out

\* kfifo_is_empty: in == out
kfifo_is_empty == (kfifo_in = kfifo_out)

\* a faulty full test that stays true once a push was rejected; C17 is
\* checked to reject it
kfifo_is_full_Sticky ==
    U32Gt(kfifo_in - kfifo_out, SIMTEMP_BUFFER_SIZE - 1) \/ stats.last_error # 0

\* kfifo_is_full: kfifo_len > mask, compared as unsigned ints
kfifo_is_full == U32Gt(kfifo_len, SIMTEMP_BUFFER_SIZE - 1)

\* wake_up_interruptible(&simtemp->wait_queue): every task sleeping on the
\* queue becomes runnable and will evaluate its wait condition again
WakeUp == [r \in Readers |-> IF rpc[r] = "wait" THEN TRUE ELSE awake[r]]


\* the slot kfifo_put writes: buf[in & mask]
KfifoPutIndex == KfifoMask(kfifo_in)

\* a faulty kfifo_get that reads the newest slot, buf[(in - 1) & mask]
\* (a stack instead of a queue); C1 is checked to reject it
KfifoGetIndex_Newest == KfifoMask(kfifo_in - 1)

\* the slot kfifo_get reads: buf[out & mask]
KfifoGetIndex == KfifoMask(kfifo_out)

\* ------------------------------------------------------------------------
\* The producer: hrtimer callback and deferred work

\* simtemp_timer_callback: schedule_work(), which queues the work unless it
\* is pending already, then the restart of the timer with the current
\* sampling_ms if the device is enabled.  hrtimer_cancel() waits for a
\* running callback, so the callback is one step.
TimerCallbackBody ==
    /\ timer = "enqueued"
    /\ work_pending' = TRUE
    /\ IF enabled
         THEN timer' = "enqueued" /\ timer_ms' = sampling_ms
         ELSE timer' = "inactive" /\ timer_ms' = 0
    /\ UNCHANGED <<cfgVars, enabled, last_temp_mC, counter, now, stats,
                   fifoVars, buffer_lock, config_lock, workVars, readVars,
                   awake, ctlVars, attrVars, rmpc, histVars>>

\* simtemp_timer_callback
simtemp_timer_callback ==
    /\ TimerCallbackBody
    /\ UNCHANGED nexp

\* simtemp_timer_callback with the history of the expiries kept
TimerExpiry ==
    /\ TimerCallbackBody
    /\ nexp' = IF enabled THEN nexp + 1 ELSE nexp

\* simtemp_sample_work: a worker takes the pending work (one instance runs at
\* a time) and enters simtemp_generate_sample, which returns at once when
\* the device is disabled
simtemp_sample_work ==
    /\ work_pending
    /\ wpc = "idle"
    /\ work_pending' = FALSE
    /\ wpc' = IF enabled THEN "compute" ELSE "idle"
    /\ UNCHANGED <<cfgVars, enabled, genVars, stats, fifoVars, buffer_lock,
                   config_lock, timerVars, wsample, wret, w_in, w_thr, readVars,
                   awake, ctlVars, attrVars, rmpc, histVars>>

\* the flags word of a new sample
SampleFlags(crossed) ==
    SIMTEMP_FLAG_NEW_SAMPLE
        + (IF crossed THEN SIMTEMP_FLAG_THRESHOLD_CROSSED ELSE 0)

\* simtemp_generate_sample, first part: timestamp, temperature, threshold
\* test (alerts++), last_temp_mC
GenCompute ==
    /\ wpc = "compute"
    /\ \E raw \in (IF mode = SIMTEMP_MODE_NOISY THEN RandomDraws ELSE {0}) :
         LET temp    == simtemp_get_base_temperature(mode, counter, raw)
             crossed == ThresholdCrossed(last_temp_mC, temp, threshold_mC)
         IN  /\ now' = now + 1
             /\ wsample' = [timestamp_ns |-> now + 1, temp_mC |-> temp,
                            flags |-> SampleFlags(crossed)]
             /\ counter' = counter + 1
             /\ stats' = IF crossed
                           THEN [stats EXCEPT !.alerts = @ + 1]
                           ELSE stats
             /\ last_temp_mC' = temp
    /\ wpc' = "put"
    /\ UNCHANGED <<cfgVars, enabled, nexp, fifoVars, buffer_lock, config_lock,
                   timerVars, work_pending, wret, w_in, w_thr, readVars, awake,
                   ctlVars, attrVars, rmpc, histVars>>

\* The threshold test reads simtemp->threshold_mC four times, with plain
\* loads and without config_lock, while threshold_mC_store and
\* SIMTEMP_IOC_SET_CONFIG may write it.  GenCompute is the test evaluated
\* at one instant; GenLoad and GenTest are the test whose loads are spread
\* over two instants.

\* simtemp_generate_sample, first part up to the first load of
\* threshold_mC: timestamp, temperature, flags = NEW_SAMPLE
GenLoad ==
    /\ wpc = "compute"
    /\ \E raw \in (IF mode = SIMTEMP_MODE_NOISY THEN RandomDraws ELSE {0}) :
         wsample' = [timestamp_ns |-> now + 1,
                     temp_mC |-> simtemp_get_base_temperature(mode, counter, raw),
                     flags |-> SIMTEMP_FLAG_NEW_SAMPLE]
    /\ now' = now + 1
    /\ counter' = counter + 1
    /\ w_thr' = threshold_mC
    /\ wpc' = "test"
    /\ UNCHANGED <<cfgVars, enabled, last_temp_mC, nexp, stats, fifoVars,
                   buffer_lock, config_lock, timerVars, work_pending, wret,
                   w_in, readVars, awake, ctlVars, attrVars, rmpc, histVars>>

\* the threshold test with the four loads of threshold_mC, in the order
\* of the expression: the first k deliver the value loaded first, the
\* others the current value
ThresholdCrossedLoads(last, cur, k) ==
    LET thr(i) == IF i <= k THEN w_thr ELSE threshold_mC
    IN  \/ (last < thr(1) /\ cur >= thr(2))
        \/ (last >= thr(3) /\ cur < thr(4))

\* simtemp_generate_sample: the rest of the threshold test (flags,
\* alerts++) and the store of last_temp_mC
GenTest ==
    /\ wpc = "test"
    /\ \E k \in 0 .. 4 :
         LET crossed == ThresholdCrossedLoads(last_temp_mC, wsample.temp_mC, k)
         IN  /\ wsample' = [wsample EXCEPT !.flags = SampleFlags(crossed)]
             /\ stats' = IF crossed
                           THEN [stats EXCEPT !.alerts = @ + 1]
                           ELSE stats
    /\ last_temp_mC' = wsample.temp_mC
    /\ w_thr' = 0
    /\ wpc' = "put"
    /\ UNCHANGED <<cfgVars, enabled, counter, now, nexp, fifoVars,
                   buffer_lock, config_lock, timerVars, work_pending, wret,
                   w_in, readVars,
                   awake, ctlVars, attrVars, rmpc, histVars>>

\* kfifo_put under buffer_lock, first part: the full test and, when there is
\* room, the store of the sample into buf[in & mask]
GenPut ==
    /\ wpc = "put"
    /\ buffer_lock = "free"
    /\ IF kfifo_is_full
         THEN /\ wret' = 0
              /\ wpc' = "finish"
              /\ UNCHANGED <<fifoVars, buffer_lock, w_in>>
         ELSE /\ kfifo_data' = [kfifo_data EXCEPT ![KfifoPutIndex] = wsample]
              /\ w_in' = kfifo_in
              /\ buffer_lock' = "worker"
              /\ wpc' = "put2"
              /\ UNCHANGED <<kfifo_in, kfifo_out, wret>>
    /\ UNCHANGED <<cfgVars, enabled, genVars, stats, config_lock, timerVars,
                   work_pending, wsample, w_thr, readVars, awake, ctlVars,
                   attrVars, rmpc, histVars>>

\* the values `in++' may store: the loaded value plus one, or the current
\* value plus one (the increment is not atomic against kfifo_reset)
KfifoInNext == {w_in + 1, kfifo_in + 1}

\* a faulty kfifo_put section that takes config_lock before it releases
\* buffer_lock; C34 is checked to reject it
GenPutCommit_Nested ==
    /\ wpc = "put2"
    /\ config_lock = "free"
    /\ \E v \in KfifoInNext : kfifo_in' = v
    /\ buffer_lock' = "free"
    /\ wret' = 1
    /\ wpc' = "finish"
    /\ pushed' = Append(pushed, wsample)
    /\ UNCHANGED <<cfgVars, enabled, genVars, stats, kfifo_out, kfifo_data,
                   config_lock, timerVars, work_pending, wsample, w_in, w_thr,
                   readVars, awake, ctlVars, attrVars, rmpc, ncalls, lastcall,
                   nflush, popped, mine>>

\* kfifo_put, second part: in++, then spin_unlock_irqrestore
GenPutCommit ==
    /\ wpc = "put2"
    /\ \E v \in KfifoInNext : kfifo_in' = v
    /\ buffer_lock' = "free"
    /\ wret' = 1
    /\ wpc' = "finish"
    /\ pushed' = Append(pushed, wsample)
    /\ UNCHANGED <<cfgVars, enabled, genVars, stats, kfifo_out, kfifo_data,
                   config_lock, timerVars, work_pending, wsample, w_in, w_thr,
                   readVars, awake, ctlVars, attrVars, rmpc, ncalls, lastcall,
                   nflush,
                   popped, mine>>

\* faulty statistics that count a rejected push as produced; C39 is checked
\* to reject them
StatsAfterPut_CountsRejected(ret) ==
    IF ret = 0
      THEN [stats EXCEPT !.last_error = -EOVERFLOW, !.updates = @ + 1]
      ELSE [stats EXCEPT !.updates = @ + 1]

\* the statistics after kfifo_put returned ret
StatsAfterPut(ret) ==
    IF ret = 0
      THEN [stats EXCEPT !.last_error = -EOVERFLOW]
      ELSE [stats EXCEPT !.updates = @ + 1]

\* simtemp_generate_sample, last part: last_error or updates++, then
\* wake_up_interruptible
GenFinish ==
    /\ wpc = "finish"
    /\ stats' = StatsAfterPut(wret)
    /\ awake' = WakeUp
    /\ wpc' = "idle"
    /\ UNCHANGED <<cfgVars, enabled, genVars, fifoVars, buffer_lock,
                   config_lock, timerVars, work_pending, wsample, wret, w_in, w_thr,
                   readVars, ctlVars, attrVars, rmpc, histVars>>


\* ------------------------------------------------------------------------
\* The consumer: simtemp_read

\* simtemp_read, entry: the load of `simtemp->stats.read_calls++' (the
\* increment is a load and a store; no lock is held)
ReadBegin(r, nb, count) ==
    /\ rpc[r] = "idle"
    /\ ncalls' = ncalls + 1
    /\ lastcall' = r
    /\ l_stat' = [l_stat EXCEPT ![r] = stats.read_calls]
    /\ rnonblock' = [rnonblock EXCEPT ![r] = nb]
    /\ rcount' = [rcount EXCEPT ![r] = count]
    /\ blockedAt' = [blockedAt EXCEPT ![r] = -1]
    /\ rsample' = [rsample EXCEPT ![r] = NoSample]
    /\ rret' = [rret EXCEPT ![r] = "none"]
    /\ rpc' = [rpc EXCEPT ![r] = "count"]
    /\ UNCHANGED <<cfgVars, enabled, genVars, stats, fifoVars, buffer_lock,
                   config_lock, timerVars, work_pending, workVars, l_out,
                   pmask, awake, ctlVars, attrVars, rmpc, nflush, pushed,
                   popped, mine>>

\* the values `read_calls++' may store: the loaded value plus one, or the
\* current value plus one (one read-modify-write instruction)
ReadCallsNext(r) == {l_stat[r] + 1, stats.read_calls + 1}

\* a faulty size test that rejects only an empty request; C26 is checked to
\* reject it
SizeTooSmall_Zero(count) ==
    count = 0

\* the size test of simtemp_read: count < sizeof(struct simtemp_sample)
SizeTooSmall(count) ==
    count < SAMPLE_SIZE

\* simtemp_read: the store of `read_calls++', then the size test (the
\* loaded value and count are not used afterwards)
ReadCount(r) ==
    /\ rpc[r] = "count"
    /\ \E v \in ReadCallsNext(r) : stats' = [stats EXCEPT !.read_calls = v]
    /\ l_stat' = [l_stat EXCEPT ![r] = 0]
    /\ rcount' = [rcount EXCEPT ![r] = 0]
    /\ IF SizeTooSmall(rcount[r])
         THEN /\ rret' = [rret EXCEPT ![r] = "EINVAL"]
              /\ rpc' = [rpc EXCEPT ![r] = "idle"]
         ELSE /\ rpc' = [rpc EXCEPT ![r] = "check"]
              /\ UNCHANGED rret
    /\ UNCHANGED <<cfgVars, enabled, genVars, fifoVars, buffer_lock,
                   config_lock, timerVars, work_pending, workVars, rnonblock,
                   pmask, rsample, l_out, blockedAt, awake, ctlVars,
                   attrVars, rmpc, histVars>>

\* a faulty simtemp_read that ignores O_NONBLOCK; C6 is checked to reject it
OnEmpty_IgnoreNonBlock(nb) ==
    "wait"

\* what simtemp_read does when its first kfifo_is_empty() test finds the
\* buffer empty: return -EAGAIN under O_NONBLOCK, wait otherwise
OnEmpty(nb) ==
    IF nb THEN "EAGAIN" ELSE "wait"

\* simtemp_read: the unlocked kfifo_is_empty() test
ReadCheck(r) ==
    /\ rpc[r] = "check"
    /\ IF kfifo_is_empty
         THEN IF OnEmpty(rnonblock[r]) = "EAGAIN"
                THEN /\ rret' = [rret EXCEPT ![r] = "EAGAIN"]
                     /\ rpc' = [rpc EXCEPT ![r] = "idle"]
                     /\ UNCHANGED <<awake, blockedAt>>
                ELSE /\ rpc' = [rpc EXCEPT ![r] = "wait"]
                     /\ awake' = [awake EXCEPT ![r] = TRUE]
                     /\ blockedAt' = [blockedAt EXCEPT ![r] = Len(pushed)]
                     /\ UNCHANGED rret
         ELSE /\ rpc' = [rpc EXCEPT ![r] = "get"]
              /\ UNCHANGED <<rret, awake, blockedAt>>
    /\ UNCHANGED <<cfgVars, enabled, genVars, stats, fifoVars, buffer_lock,
                   config_lock, timerVars, work_pending, workVars, rnonblock,
                   entryVars,
                   rsample, l_out, ctlVars, attrVars, rmpc, histVars>>

\* a faulty wait whose condition is always true (the read does not wait for
\* a push); C7 is checked to reject it
WaitCondition_Always ==
    TRUE

\* the condition of wait_event_interruptible in simtemp_read
WaitCondition ==
    ~kfifo_is_empty

\* wait_event_interruptible: a runnable waiter evaluates the condition and
\* either leaves the wait or sleeps in schedule() until the next wake-up
ReadWait(r) ==
    /\ rpc[r] = "wait"
    /\ awake[r]
    /\ awake' = [awake EXCEPT ![r] = FALSE]
    /\ rpc' = [rpc EXCEPT ![r] = IF WaitCondition THEN "get" ELSE "wait"]
    /\ UNCHANGED <<cfgVars, enabled, genVars, stats, fifoVars, buffer_lock,
                   config_lock, timerVars, work_pending, workVars, rnonblock,
                   entryVars,
                   rsample, rret, l_out, blockedAt, ctlVars, attrVars, rmpc,
                   histVars>>

\* a signal reaches a waiting reader: the condition is evaluated first, and
\* the wait ends with -ERESTARTSYS when it is false
ReadSignal(r) ==
    /\ rpc[r] = "wait"
    /\ awake' = [awake EXCEPT ![r] = FALSE]
    /\ IF WaitCondition
         THEN /\ rpc' = [rpc EXCEPT ![r] = "get"]
              /\ UNCHANGED rret
         ELSE /\ rpc' = [rpc EXCEPT ![r] = "idle"]
              /\ rret' = [rret EXCEPT ![r] = "EINTR"]
    /\ UNCHANGED <<cfgVars, enabled, genVars, stats, fifoVars, buffer_lock,
                   config_lock, timerVars, work_pending, workVars, rnonblock,
                   entryVars,
                   rsample, l_out, blockedAt, ctlVars, attrVars, rmpc,
                   histVars>>

\* what simtemp_read returns when kfifo_get() finds nothing
OnGetNothing ==
    "EAGAIN"

\* kfifo_get under buffer_lock, first part: the empty test and the load of
\* buf[out & mask]
ReadGet(r) ==
    /\ rpc[r] = "get"
    /\ buffer_lock = "free"
    /\ IF kfifo_is_empty
         THEN /\ rret' = [rret EXCEPT ![r] = OnGetNothing]
              /\ rpc' = [rpc EXCEPT ![r] = "idle"]
              /\ UNCHANGED <<rsample, l_out, buffer_lock, popped>>
         ELSE /\ rsample' = [rsample EXCEPT ![r] = kfifo_data[KfifoGetIndex]]
              /\ l_out' = [l_out EXCEPT ![r] = kfifo_out]
              /\ buffer_lock' = r
              /\ rpc' = [rpc EXCEPT ![r] = "get2"]
              /\ popped' = Append(popped, kfifo_data[KfifoGetIndex])
              /\ UNCHANGED rret
    /\ UNCHANGED <<cfgVars, enabled, genVars, stats, fifoVars, config_lock,
                   timerVars, work_pending, workVars, rnonblock,
                   entryVars, blockedAt,
                   awake, ctlVars, attrVars, rmpc, ncalls, lastcall, nflush,
                   pushed,
                   mine>>

\* a faulty kfifo_get that does not advance out (the sample stays in the
\* buffer); C9 is checked to reject it
KfifoOutNext_Stuck(r) == {l_out[r]}

\* the values `out++' may store (see KfifoInNext)
KfifoOutNext(r) == {l_out[r] + 1, kfifo_out + 1}

\* kfifo_get, second part: out++, then spin_unlock_irqrestore
ReadGetCommit(r) ==
    /\ rpc[r] = "get2"
    /\ \E v \in KfifoOutNext(r) : kfifo_out' = v
    /\ buffer_lock' = "free"
    /\ rpc' = [rpc EXCEPT ![r] = "copy"]
    /\ UNCHANGED <<cfgVars, enabled, genVars, stats, kfifo_in, kfifo_data,
                   config_lock, timerVars, work_pending, workVars, rnonblock,
                   entryVars,
                   rsample, rret, l_out, blockedAt, awake, ctlVars, attrVars,
                   rmpc, histVars>>

\* copy_to_user of the sample: it succeeds (ok) or reports -EFAULT
ReadCopy(r, ok) ==
    /\ rpc[r] = "copy"
    /\ rret' = [rret EXCEPT ![r] = IF ok THEN "sample" ELSE "EFAULT"]
    /\ rpc' = [rpc EXCEPT ![r] = "idle"]
    /\ UNCHANGED <<cfgVars, enabled, genVars, stats, fifoVars, buffer_lock,
                   config_lock, timerVars, work_pending, workVars, rnonblock,
                   entryVars,
                   rsample, l_out, blockedAt, awake, ctlVars, attrVars, rmpc,
                   histVars>>


\* ------------------------------------------------------------------------
\* Readiness: simtemp_poll

\* simtemp_poll, entry: the load of `simtemp->stats.poll_calls++'
PollBegin(r) ==
    /\ rpc[r] = "idle"
    /\ ncalls' = ncalls + 1
    /\ lastcall' = r
    /\ l_stat' = [l_stat EXCEPT ![r] = stats.poll_calls]
    /\ rret' = [rret EXCEPT ![r] = "none"]
    /\ rpc' = [rpc EXCEPT ![r] = "pcount"]
    /\ UNCHANGED <<cfgVars, enabled, genVars, stats, fifoVars, buffer_lock,
                   config_lock, timerVars, work_pending, workVars, rnonblock,
                   rsample, l_out, blockedAt, rcount, pmask, awake, ctlVars,
                   attrVars, rmpc, nflush, pushed, popped, mine>>

\* the values `poll_calls++' may store (see ReadCallsNext)
PollCallsNext(r) == {l_stat[r] + 1, stats.poll_calls + 1}

\* simtemp_poll: the store of `poll_calls++' (the loaded value is not
\* used afterwards)
PollCount(r) ==
    /\ rpc[r] = "pcount"
    /\ \E v \in PollCallsNext(r) : stats' = [stats EXCEPT !.poll_calls = v]
    /\ l_stat' = [l_stat EXCEPT ![r] = 0]
    /\ rpc' = [rpc EXCEPT ![r] = "pmask"]
    /\ UNCHANGED <<cfgVars, enabled, genVars, fifoVars, buffer_lock,
                   config_lock, timerVars, work_pending, workVars, rnonblock,
                   rcount, pmask, rsample, rret, l_out, blockedAt, awake,
                   ctlVars, attrVars, rmpc, histVars>>

\* the mask simtemp_poll computes: EPOLLIN | EPOLLRDNORM when the buffer is
\* not empty, 0 otherwise
PollMask ==
    IF ~kfifo_is_empty THEN {"EPOLLIN", "EPOLLRDNORM"} ELSE {}

\* simtemp_poll: poll_wait (the caller is queued on wait_queue; nothing of
\* the device changes), the kfifo_is_empty() test and the return of the mask
PollCheck(r) ==
    /\ rpc[r] = "pmask"
    /\ pmask' = [pmask EXCEPT ![r] = PollMask]
    /\ rret' = [rret EXCEPT ![r] = "mask"]
    /\ rpc' = [rpc EXCEPT ![r] = "idle"]
    /\ UNCHANGED <<cfgVars, enabled, genVars, stats, fifoVars, buffer_lock,
                   config_lock, timerVars, work_pending, workVars, rnonblock,
                   rsample, l_out, blockedAt, rcount, l_stat, awake, ctlVars,
                   attrVars, rmpc, histVars>>

\* a poller's steps after the entry of simtemp_poll
PollerStep(r) ==
    \/ PollCount(r)
    \/ PollCheck(r)

\* ------------------------------------------------------------------------
\* hrtimer operations

\* hrtimer_start(&simtemp->timer, ms_to_ktime(simtemp->sampling_ms), REL):
\* (re)arms the timer one sampling_ms from now
hrtimer_start ==
    /\ timer' = "enqueued"
    /\ timer_ms' = sampling_ms

\* hrtimer_cancel(&simtemp->timer): the timer is no longer pending
hrtimer_cancel ==
    /\ timer' = "inactive"
    /\ timer_ms' = 0

\* ------------------------------------------------------------------------
\* Control commands: simtemp_ioctl (no lock is taken on this path)

\* SIMTEMP_IOC_ENABLE, first part: the test of enabled and enabled = true
IoctlEnable(c) ==
    /\ cpc[c] = "idle"
    /\ rmpc # "done"
    /\ ncalls' = ncalls + 1
    /\ lastcall' = c
    /\ ccmd' = [ccmd EXCEPT ![c] = "ENABLE"]
    /\ craw' = [craw EXCEPT ![c] = SIMTEMP_IOC_ENABLE]
    /\ IF ~enabled
         THEN /\ enabled' = TRUE
              /\ cpc' = [cpc EXCEPT ![c] = "en_start"]
              /\ cret' = [cret EXCEPT ![c] = "none"]
         ELSE /\ cret' = [cret EXCEPT ![c] = "ok"]
              /\ UNCHANGED <<enabled, cpc>>
    /\ UNCHANGED <<cfgVars, genVars, stats, fifoVars, buffer_lock,
                   config_lock, timerVars, work_pending, workVars, readVars,
                   awake, ccfg, attrVars, rmpc, nflush, pushed, popped, mine>>

\* SIMTEMP_IOC_ENABLE, second part: hrtimer_start
IoctlEnableStart(c) ==
    /\ cpc[c] = "en_start"
    /\ hrtimer_start
    /\ UNCHANGED <<ccmd, craw>>
    /\ cpc' = [cpc EXCEPT ![c] = "idle"]
    /\ cret' = [cret EXCEPT ![c] = "ok"]
    /\ UNCHANGED <<cfgVars, enabled, genVars, stats, fifoVars, buffer_lock,
                   config_lock, work_pending, workVars, readVars, awake, ccfg,
                   attrVars, rmpc, histVars>>

\* SIMTEMP_IOC_DISABLE, first part: enabled = false
IoctlDisable(c) ==
    /\ cpc[c] = "idle"
    /\ rmpc # "done"
    /\ ncalls' = ncalls + 1
    /\ lastcall' = c
    /\ ccmd' = [ccmd EXCEPT ![c] = "DISABLE"]
    /\ craw' = [craw EXCEPT ![c] = SIMTEMP_IOC_DISABLE]
    /\ enabled' = FALSE
    /\ cpc' = [cpc EXCEPT ![c] = "dis_cancel"]
    /\ cret' = [cret EXCEPT ![c] = "none"]
    /\ UNCHANGED <<cfgVars, genVars, stats, fifoVars, buffer_lock,
                   config_lock, timerVars, work_pending, workVars, readVars,
                   awake, ccfg, attrVars, rmpc, nflush, pushed, popped, mine>>

\* what SIMTEMP_IOC_DISABLE does to the wait queue after hrtimer_cancel:
\* nothing (the command has no wake_up call)
DisableWake ==
    awake

\* SIMTEMP_IOC_DISABLE, second part: hrtimer_cancel
IoctlDisableCancel(c) ==
    /\ cpc[c] = "dis_cancel"
    /\ hrtimer_cancel
    /\ awake' = DisableWake
    /\ UNCHANGED <<ccmd, craw>>
    /\ cpc' = [cpc EXCEPT ![c] = "idle"]
    /\ cret' = [cret EXCEPT ![c] = "ok"]
    /\ UNCHANGED <<cfgVars, enabled, genVars, stats, fifoVars, buffer_lock,
                   config_lock, work_pending, workVars, readVars, ccfg,
                   attrVars, rmpc, histVars>>

\* a faulty validation that accepts every candidate; C12 is checked to
\* reject it
ConfigValid_Lax(cfg) ==
    TRUE

\* the validation of SIMTEMP_IOC_SET_CONFIG
ConfigValid(cfg) ==
    ~ \/ cfg.sampling_ms < SIMTEMP_MIN_SAMPLING_MS
      \/ cfg.sampling_ms > SIMTEMP_MAX_SAMPLING_MS
      \/ cfg.mode >= SIMTEMP_MODE_MAX

\* SIMTEMP_IOC_SET_CONFIG: copy_from_user, the validation, and the first of
\* the three stores (sampling_ms)
IoctlSetConfig(c, cfg) ==
    /\ cpc[c] = "idle"
    /\ rmpc # "done"
    /\ ncalls' = ncalls + 1
    /\ lastcall' = c
    /\ ccmd' = [ccmd EXCEPT ![c] = "SET_CONFIG"]
    /\ craw' = [craw EXCEPT ![c] = SIMTEMP_IOC_SET_CONFIG]
    /\ ccfg' = [ccfg EXCEPT ![c] = cfg]
    /\ IF ConfigValid(cfg)
         THEN /\ sampling_ms' = cfg.sampling_ms
              /\ mine' = NoteStore(c, "sampling_ms", cfg.sampling_ms)
              /\ cpc' = [cpc EXCEPT ![c] = "set_threshold"]
              /\ cret' = [cret EXCEPT ![c] = "none"]
         ELSE /\ cret' = [cret EXCEPT ![c] = "EINVAL"]
              /\ UNCHANGED <<sampling_ms, cpc, mine>>
    /\ UNCHANGED <<threshold_mC, mode, enabled, genVars, stats, fifoVars,
                   buffer_lock, config_lock, timerVars, work_pending,
                   workVars, readVars, awake, attrVars, rmpc, nflush, pushed,
                   popped>>

\* SIMTEMP_IOC_SET_CONFIG: the second store (threshold_mC)
IoctlSetThreshold(c) ==
    /\ cpc[c] = "set_threshold"
    /\ threshold_mC' = ccfg[c].threshold_mC
    /\ mine' = NoteStore(c, "threshold_mC", ccfg[c].threshold_mC)
    /\ UNCHANGED <<ccmd, craw>>
    /\ cpc' = [cpc EXCEPT ![c] = "set_mode"]
    /\ UNCHANGED <<sampling_ms, mode, enabled, genVars, stats, fifoVars,
                   buffer_lock, config_lock, timerVars, work_pending,
                   workVars, readVars, awake, ccfg, cret, attrVars, rmpc,
                   ncalls, lastcall, nflush, pushed, popped>>

\* SIMTEMP_IOC_SET_CONFIG: the third store (mode); the command returns 0
IoctlSetMode(c) ==
    /\ cpc[c] = "set_mode"
    /\ mode' = ccfg[c].mode
    /\ mine' = NoteStore(c, "mode", ccfg[c].mode)
    /\ UNCHANGED <<ccmd, craw>>
    /\ cpc' = [cpc EXCEPT ![c] = "idle"]
    /\ cret' = [cret EXCEPT ![c] = "ok"]
    /\ UNCHANGED <<sampling_ms, threshold_mC, enabled, genVars, stats,
                   fifoVars, buffer_lock, config_lock, timerVars,
                   work_pending, workVars, readVars, awake, ccfg, attrVars,
                   rmpc, ncalls, lastcall, nflush, pushed, popped>>

\* SIMTEMP_IOC_GET_CONFIG: the first of the three loads (sampling_ms); the
\* fields of the local config not yet loaded are never read
IoctlGetConfig(c) ==
    /\ cpc[c] = "idle"
    /\ rmpc # "done"
    /\ ncalls' = ncalls + 1
    /\ lastcall' = c
    /\ ccmd' = [ccmd EXCEPT ![c] = "GET_CONFIG"]
    /\ craw' = [craw EXCEPT ![c] = SIMTEMP_IOC_GET_CONFIG]
    /\ ccfg' = [ccfg EXCEPT ![c] = [sampling_ms |-> sampling_ms,
                                      threshold_mC |-> 0, mode |-> 0]]
    /\ cpc' = [cpc EXCEPT ![c] = "get_threshold"]
    /\ cret' = [cret EXCEPT ![c] = "none"]
    /\ UNCHANGED <<cfgVars, enabled, genVars, stats, fifoVars, buffer_lock,
                   config_lock, timerVars, work_pending, workVars, readVars,
                   awake, attrVars, rmpc, nflush, pushed, popped, mine>>

\* a faulty SIMTEMP_IOC_GET_CONFIG that does not load threshold_mC; C14 is
\* checked to reject it
IoctlGetThreshold_Skipped(c) ==
    /\ cpc[c] = "get_threshold"
    /\ cpc' = [cpc EXCEPT ![c] = "get_mode"]
    /\ UNCHANGED <<cfgVars, enabled, genVars, stats, fifoVars, buffer_lock,
                   config_lock, timerVars, work_pending, workVars, readVars,
                   awake, ccfg, ccmd, craw, cret, attrVars, rmpc,
                   histVars>>

\* SIMTEMP_IOC_GET_CONFIG: the second load (threshold_mC)
IoctlGetThreshold(c) ==
    /\ cpc[c] = "get_threshold"
    /\ ccfg' = [ccfg EXCEPT ![c].threshold_mC = threshold_mC]
    /\ UNCHANGED <<ccmd, craw>>
    /\ cpc' = [cpc EXCEPT ![c] = "get_mode"]
    /\ UNCHANGED <<cfgVars, enabled, genVars, stats, fifoVars, buffer_lock,
                   config_lock, timerVars, work_pending, workVars, readVars,
                   awake, cret, attrVars, rmpc, histVars>>

\* SIMTEMP_IOC_GET_CONFIG: the third load (mode), then copy_to_user, which
\* succeeds (ok) or makes the command return -EFAULT
IoctlGetMode(c, ok) ==
    /\ cpc[c] = "get_mode"
    /\ ccfg' = [ccfg EXCEPT ![c].mode = mode]
    /\ UNCHANGED <<ccmd, craw>>
    /\ cpc' = [cpc EXCEPT ![c] = "idle"]
    /\ cret' = [cret EXCEPT ![c] = IF ok THEN "ok" ELSE "EFAULT"]
    /\ UNCHANGED <<cfgVars, enabled, genVars, stats, fifoVars, buffer_lock,
                   config_lock, timerVars, work_pending, workVars, readVars,
                   awake, attrVars, rmpc, histVars>>

\* SIMTEMP_IOC_FLUSH_BUFFER: kfifo_reset is `in = out = 0' without
\* buffer_lock; first the store to out
IoctlFlush(c) ==
    /\ cpc[c] = "idle"
    /\ rmpc # "done"
    /\ ncalls' = ncalls + 1
    /\ lastcall' = c
    /\ ccmd' = [ccmd EXCEPT ![c] = "FLUSH_BUFFER"]
    /\ craw' = [craw EXCEPT ![c] = SIMTEMP_IOC_FLUSH_BUFFER]
    /\ nflush' = nflush + 1
    /\ kfifo_out' = 0
    /\ cpc' = [cpc EXCEPT ![c] = "flush_in"]
    /\ cret' = [cret EXCEPT ![c] = "none"]
    /\ UNCHANGED <<cfgVars, enabled, genVars, stats, kfifo_in, kfifo_data,
                   buffer_lock, config_lock, timerVars, work_pending,
                   workVars, readVars, awake, ccfg, attrVars, rmpc, pushed,
                   popped, mine>>

\* kfifo_reset: then the store to in
IoctlFlushIn(c) ==
    /\ cpc[c] = "flush_in"
    /\ kfifo_in' = 0
    /\ UNCHANGED <<ccmd, craw>>
    /\ cpc' = [cpc EXCEPT ![c] = "idle"]
    /\ cret' = [cret EXCEPT ![c] = "ok"]
    /\ UNCHANGED <<cfgVars, enabled, genVars, stats, kfifo_out, kfifo_data,
                   buffer_lock, config_lock, timerVars, work_pending,
                   workVars, readVars, awake, ccfg, attrVars, rmpc, histVars>>


\* the command codes user space may pass besides the ones of the commands
\* above: RESET_STATS, a code of another driver (wrong magic), a number
\* above SIMTEMP_IOC_MAXNR, the unused number 0, and the number of
\* RESET_STATS with the direction and size of SET_CONFIG
IoctlCommands ==
    { SIMTEMP_IOC_RESET_STATS,
      IOC("-", "T", 4, 0),
      IOC("-", SIMTEMP_IOC_MAGIC, SIMTEMP_IOC_MAXNR + 1, 0),
      IOC("-", SIMTEMP_IOC_MAGIC, 0, 0),
      IOC("W", SIMTEMP_IOC_MAGIC, 4, 16) }

\* a faulty dispatch that switches on the command number alone; C28 is
\* checked to reject it
simtemp_ioctl_case_ByNumber(cmd) ==
    IF cmd.type # SIMTEMP_IOC_MAGIC THEN "ENOTTY"
    ELSE IF cmd.nr > SIMTEMP_IOC_MAXNR THEN "ENOTTY"
    ELSE CASE cmd.nr = 1 -> "GET_CONFIG"
           [] cmd.nr = 2 -> "SET_CONFIG"
           [] cmd.nr = 3 -> "GET_STATS"
           [] cmd.nr = 4 -> "RESET_STATS"
           [] cmd.nr = 5 -> "ENABLE"
           [] cmd.nr = 6 -> "DISABLE"
           [] cmd.nr = 7 -> "FLUSH_BUFFER"
           [] OTHER      -> "ENOTTY"

\* simtemp_ioctl: the tests of _IOC_TYPE and _IOC_NR and the switch on cmd;
\* the case label cmd matches, or "ENOTTY"
simtemp_ioctl_case(cmd) ==
    IF cmd.type # SIMTEMP_IOC_MAGIC THEN "ENOTTY"
    ELSE IF cmd.nr > SIMTEMP_IOC_MAXNR THEN "ENOTTY"
    ELSE CASE cmd = SIMTEMP_IOC_GET_CONFIG   -> "GET_CONFIG"
           [] cmd = SIMTEMP_IOC_SET_CONFIG   -> "SET_CONFIG"
           [] cmd = SIMTEMP_IOC_GET_STATS    -> "GET_STATS"
           [] cmd = SIMTEMP_IOC_RESET_STATS  -> "RESET_STATS"
           [] cmd = SIMTEMP_IOC_ENABLE       -> "ENABLE"
           [] cmd = SIMTEMP_IOC_DISABLE      -> "DISABLE"
           [] cmd = SIMTEMP_IOC_FLUSH_BUFFER -> "FLUSH_BUFFER"
           [] OTHER                          -> "ENOTTY"

\* memset(&simtemp->stats, 0, sizeof(simtemp->stats))
ZeroStats ==
    [updates |-> 0, alerts |-> 0, read_calls |-> 0, poll_calls |-> 0,
     last_error |-> 0]

\* simtemp_ioctl for the command codes of IoctlCommands: a code that fails
\* the tests or matches no case returns -ENOTTY; SIMTEMP_IOC_RESET_STATS
\* zeroes the statistics
simtemp_ioctl(c, cmd) ==
    /\ cpc[c] = "idle"
    /\ rmpc # "done"
    /\ simtemp_ioctl_case(cmd) \in {"ENOTTY", "RESET_STATS"}
    /\ ncalls' = ncalls + 1
    /\ lastcall' = c
    /\ craw' = [craw EXCEPT ![c] = cmd]
    /\ IF simtemp_ioctl_case(cmd) = "RESET_STATS"
         THEN /\ stats' = ZeroStats
              /\ ccmd' = [ccmd EXCEPT ![c] = "RESET_STATS"]
              /\ cret' = [cret EXCEPT ![c] = "ok"]
         ELSE /\ ccmd' = [ccmd EXCEPT ![c] = "none"]
              /\ cret' = [cret EXCEPT ![c] = "ENOTTY"]
              /\ UNCHANGED stats
    /\ UNCHANGED <<cfgVars, enabled, genVars, fifoVars, buffer_lock,
                   config_lock, timerVars, work_pending, workVars, readVars,
                   awake, cpc, ccfg, attrVars, rmpc, nflush, pushed, popped,
                   mine>>

\* ------------------------------------------------------------------------
\* The attributes (sysfs).  A store that passes its validation writes its
\* field under config_lock; lock, store and unlock are one step.

\* the texts user space writes to sampling_ms, with the number each is
\* meant to denote
SamplingWrites ==
    { [text |-> <<"2", "0", "0", "\n">>,      value |-> 200],
      [text |-> <<"+", "5", "0">>,            value |-> 50],
      [text |-> <<"0">>,                      value |-> 0],
      [text |-> <<"1", "0", "0", "0", "1">>,  value |-> 10001],
      [text |-> <<"-", "1">>,                 value |-> -1] }

\* the texts user space writes to threshold_mC
ThresholdWrites ==
    { [text |-> <<"4", "0", "0", "0", "0">>,  value |-> 40000],
      [text |-> <<"-", "5", "\n">>,           value |-> -5],
      [text |-> <<"4", "x">>,                 value |-> 4] }

\* the texts user space writes to mode
ModeWrites ==
    { [text |-> <<"n", "o", "i", "s", "y", "\n">>,     value |-> SIMTEMP_MODE_NOISY],
      [text |-> <<"r", "a", "m", "p">>,                value |-> SIMTEMP_MODE_RAMP],
      [text |-> <<"i", "n", "v", "a", "l", "i", "d">>, value |-> SIMTEMP_MODE_MAX] }

\* the beginning of every attribute access of writer s with buffer text t
AttrAccess(s, t) ==
    /\ spc[s] = "idle"
    /\ rmpc # "done"
    /\ ncalls' = ncalls + 1
    /\ lastcall' = s
    /\ sbuf' = [sbuf EXCEPT ![s] = t]
    /\ UNCHANGED <<enabled, genVars, stats, fifoVars, buffer_lock,
                   config_lock, timerVars, work_pending, workVars, readVars,
                   awake, ctlVars, spc, rmpc, nflush, pushed, popped>>

\* sampling_ms_store
sampling_ms_store(s, w) ==
    LET r == kstrtouint(w.text)
    IN  /\ AttrAccess(s, w.text)
        /\ IF r.err # "ok"
             THEN /\ sret' = [sret EXCEPT ![s] = r.err]
                  /\ UNCHANGED <<cfgVars, mine>>
           ELSE IF r.val < SIMTEMP_MIN_SAMPLING_MS
                   \/ r.val > SIMTEMP_MAX_SAMPLING_MS
             THEN /\ sret' = [sret EXCEPT ![s] = "EINVAL"]
                  /\ UNCHANGED <<cfgVars, mine>>
           ELSE /\ config_lock = "free"
                /\ sampling_ms' = r.val
                /\ mine' = NoteStore(s, "sampling_ms", w.value)
                /\ sret' = [sret EXCEPT ![s] = "count"]
                /\ UNCHANGED <<threshold_mC, mode>>

\* threshold_mC_store
threshold_mC_store(s, w) ==
    LET r == kstrtoint(w.text)
    IN  /\ AttrAccess(s, w.text)
        /\ IF r.err # "ok"
             THEN /\ sret' = [sret EXCEPT ![s] = r.err]
                  /\ UNCHANGED <<cfgVars, mine>>
             ELSE /\ config_lock = "free"
                  /\ threshold_mC' = r.val
                  /\ mine' = NoteStore(s, "threshold_mC", w.value)
                  /\ sret' = [sret EXCEPT ![s] = "count"]
                  /\ UNCHANGED <<sampling_ms, mode>>

\* the mode a word written to the mode attribute selects, or
\* SIMTEMP_MODE_MAX when mode_store rejects the word
ModeOfText(t) ==
    IF sysfs_streq(t, mode_names[1]) THEN SIMTEMP_MODE_NORMAL
    ELSE IF sysfs_streq(t, mode_names[2]) THEN SIMTEMP_MODE_NOISY
    ELSE IF sysfs_streq(t, mode_names[3]) THEN SIMTEMP_MODE_RAMP
    ELSE SIMTEMP_MODE_MAX

\* mode_store
mode_store(s, w) ==
    LET m == ModeOfText(w.text)
    IN  /\ AttrAccess(s, w.text)
        /\ IF m = SIMTEMP_MODE_MAX
             THEN /\ sret' = [sret EXCEPT ![s] = "EINVAL"]
                  /\ UNCHANGED <<cfgVars, mine>>
             ELSE /\ config_lock = "free"
                  /\ mode' = m
                  /\ mine' = NoteStore(s, "mode", w.value)
                  /\ sret' = [sret EXCEPT ![s] = "count"]
                  /\ UNCHANGED <<sampling_ms, threshold_mC>>

\* sampling_ms_show: sprintf(buf, "%u\n", sampling_ms)
sampling_ms_show(s) ==
    /\ AttrAccess(s, FormatUint(sampling_ms) \o <<"\n">>)
    /\ sret' = [sret EXCEPT ![s] = "sampling_ms"]
    /\ UNCHANGED <<cfgVars, mine>>

\* threshold_mC_show: sprintf(buf, "%d\n", threshold_mC)
threshold_mC_show(s) ==
    /\ AttrAccess(s, FormatInt(threshold_mC) \o <<"\n">>)
    /\ sret' = [sret EXCEPT ![s] = "threshold_mC"]
    /\ UNCHANGED <<cfgVars, mine>>

\* mode_show: the name of the mode, or "unknown"
mode_show(s) ==
    /\ AttrAccess(s, IF mode >= Len(mode_names)
                       THEN <<"u", "n", "k", "n", "o", "w", "n", "\n">>
                       ELSE mode_names[mode + 1] \o <<"\n">>)
    /\ sret' = [sret EXCEPT ![s] = "mode"]
    /\ UNCHANGED <<cfgVars, mine>>

\* ------------------------------------------------------------------------
\* The enabled attribute: enabled_store, under config_lock

\* enabled_store: mutex_lock, the test of val and enabled, the store
EnabledStore(s, val) ==
    /\ spc[s] = "idle"
    /\ rmpc # "done"
    /\ config_lock = "free"
    /\ ncalls' = ncalls + 1
    /\ lastcall' = s
    /\ IF val /\ ~enabled
         THEN /\ enabled' = TRUE
              /\ spc' = [spc EXCEPT ![s] = "start"]
              /\ config_lock' = s
              /\ sret' = [sret EXCEPT ![s] = "none"]
         ELSE IF ~val /\ enabled
           THEN /\ enabled' = FALSE
                /\ spc' = [spc EXCEPT ![s] = "cancel"]
                /\ config_lock' = s
                /\ sret' = [sret EXCEPT ![s] = "none"]
           ELSE /\ sret' = [sret EXCEPT ![s] = "count"]
                /\ UNCHANGED <<enabled, spc, config_lock>>
    /\ UNCHANGED <<cfgVars, genVars, stats, fifoVars, buffer_lock, timerVars,
                   work_pending, workVars, readVars, awake, ctlVars, sbuf,
                   rmpc, nflush, pushed, popped, mine>>

\* enabled_store, enabling: hrtimer_start, mutex_unlock
EnabledStoreStart(s) ==
    /\ spc[s] = "start"
    /\ hrtimer_start
    /\ config_lock' = "free"
    /\ spc' = [spc EXCEPT ![s] = "idle"]
    /\ sret' = [sret EXCEPT ![s] = "count"]
    /\ UNCHANGED <<cfgVars, enabled, genVars, stats, fifoVars, buffer_lock,
                   work_pending, workVars, readVars, awake, ctlVars, sbuf,
                   rmpc, histVars>>

\* enabled_store, disabling: hrtimer_cancel, mutex_unlock
EnabledStoreCancel(s) ==
    /\ spc[s] = "cancel"
    /\ hrtimer_cancel
    /\ config_lock' = "free"
    /\ spc' = [spc EXCEPT ![s] = "idle"]
    /\ sret' = [sret EXCEPT ![s] = "count"]
    /\ UNCHANGED <<cfgVars, enabled, genVars, stats, fifoVars, buffer_lock,
                   work_pending, workVars, readVars, awake, ctlVars, sbuf,
                   rmpc, histVars>>


\* ------------------------------------------------------------------------
\* Teardown: simtemp_remove

\* mutex_lock; enabled = false; mutex_unlock
RemoveDisable ==
    /\ rmpc = "idle"
    /\ config_lock = "free"
    /\ enabled' = FALSE
    /\ rmpc' = "cancel_timer"
    /\ UNCHANGED <<cfgVars, genVars, stats, fifoVars, buffer_lock,
                   config_lock, timerVars, work_pending, workVars, readVars,
                   awake, ctlVars, attrVars, histVars>>

\* hrtimer_cancel
RemoveCancelTimer ==
    /\ rmpc = "cancel_timer"
    /\ hrtimer_cancel
    /\ rmpc' = "cancel_work"
    /\ UNCHANGED <<cfgVars, enabled, genVars, stats, fifoVars, buffer_lock,
                   config_lock, work_pending, workVars, readVars, awake,
                   ctlVars, attrVars, histVars>>

\* cancel_work_sync: waits for a running instance of the work, and takes a
\* pending one off the queue
RemoveCancelWork ==
    /\ rmpc = "cancel_work"
    /\ wpc = "idle"
    /\ work_pending' = FALSE
    /\ rmpc' = "wake"
    /\ UNCHANGED <<cfgVars, enabled, genVars, stats, fifoVars, buffer_lock,
                   config_lock, timerVars, workVars, readVars, awake, ctlVars,
                   attrVars, histVars>>

\* wake_up_interruptible_all
RemoveWake ==
    /\ rmpc = "wake"
    /\ awake' = WakeUp
    /\ rmpc' = "unregister"
    /\ UNCHANGED <<cfgVars, enabled, genVars, stats, fifoVars, buffer_lock,
                   config_lock, timerVars, work_pending, workVars, readVars,
                   ctlVars, attrVars, histVars>>

\* simtemp_sysfs_cleanup (which waits for attribute stores in progress) and
\* misc_deregister: simtemp_remove returns
RemoveUnregister ==
    /\ rmpc = "unregister"
    /\ \A s \in Writers : spc[s] = "idle"
    /\ rmpc' = "done"
    /\ UNCHANGED <<cfgVars, enabled, genVars, stats, fifoVars, buffer_lock,
                   config_lock, timerVars, work_pending, workVars, readVars,
                   awake, ctlVars, attrVars, histVars>>


\* ------------------------------------------------------------------------
\* Specifications

\* samples the generator has computed or is committed to compute
Committed ==
    counter + (IF work_pending THEN 1 ELSE 0)
            + (IF wpc = "compute" THEN 1 ELSE 0)

\* the worker's steps
Worker ==
    \/ simtemp_sample_work
    \/ GenCompute
    \/ GenPut
    \/ GenPutCommit
    \/ GenFinish

\* a reader's steps after the entry of simtemp_read
ReaderStep(r) ==
    \/ ReadCount(r)
    \/ ReadCheck(r)
    \/ ReadWait(r)
    \/ ReadGet(r)
    \/ ReadGetCommit(r)
    \/ \E ok \in BOOLEAN : ReadCopy(r, ok)

\* the steps of a read under O_NONBLOCK after the entry of simtemp_read (it
\* never enters the wait)
NonBlockingStep(r) ==
    \/ ReadCount(r)
    \/ ReadCheck(r)
    \/ ReadGet(r)
    \/ ReadGetCommit(r)
    \/ \E ok \in BOOLEAN : ReadCopy(r, ok)

\* Producer, two readers, one ioctl caller issuing enable, disable and flush
Next ==
    \/ (Committed < MaxSamples /\ simtemp_timer_callback)
    \/ Worker
    \/ \E r \in Readers :
         \/ (ncalls < MaxCalls /\ \E nb \in BOOLEAN, n \in ReadCounts : ReadBegin(r, nb, n))
         \/ ReaderStep(r)
         \/ ReadSignal(r)
    \/ \E c \in {"c1"} :
         \/ (ncalls < MaxCalls /\ IoctlEnable(c))
         \/ IoctlEnableStart(c)
         \/ (ncalls < MaxCalls /\ IoctlDisable(c))
         \/ IoctlDisableCancel(c)
         \/ (ncalls < MaxCalls /\ nflush < 1 /\ IoctlFlush(c))
         \/ IoctlFlushIn(c)

Spec == Init /\ [][Next]_vars


\* The buffer filled to its capacity and beyond: the producer and one
\* blocking reader, the device enabled once by a control command
NextFill ==
    \/ (Committed < SIMTEMP_BUFFER_SIZE + MaxOverflow /\ simtemp_timer_callback)
    \/ Worker
    \/ ReadBegin("r1", FALSE, SAMPLE_SIZE)
    \/ ReaderStep("r1")
    \/ (~enabled /\ IoctlEnable("c1"))
    \/ IoctlEnableStart("c1")

SpecFill == Init /\ [][NextFill]_vars

\* Lifecycle: the producer, the control commands enable, disable and
\* set-configuration, the enabled attribute, and teardown
NextLife ==
    \/ (Committed < MaxTicks /\ simtemp_timer_callback)
    \/ Worker
    \/ \E c \in {"c1"} :
         \/ (ncalls < MaxCalls /\ IoctlEnable(c))
         \/ IoctlEnableStart(c)
         \/ (ncalls < MaxCalls /\ IoctlDisable(c))
         \/ IoctlDisableCancel(c)
         \/ (ncalls < MaxCalls /\ \E cfg \in ConfigChoices : IoctlSetConfig(c, cfg))
         \/ IoctlSetThreshold(c)
         \/ IoctlSetMode(c)
    \/ \E s \in Writers :
         \/ (ncalls < MaxCalls /\ \E val \in BOOLEAN : EnabledStore(s, val))
         \/ EnabledStoreStart(s)
         \/ EnabledStoreCancel(s)
    \/ RemoveDisable
    \/ RemoveCancelTimer
    \/ RemoveCancelWork
    \/ RemoveWake
    \/ RemoveUnregister

SpecLife == Init /\ [][NextLife]_vars

\* A device probed from a device-tree node, then filled as in NextFill
SpecBoot == InitDT /\ [][NextFill]_vars

\* The configuration: two ioctl callers issuing set-configuration,
\* get-configuration and enable, one writer storing and showing the
\* attributes, and the timer
NextCfg ==
    \/ (Committed < MaxTicks /\ simtemp_timer_callback)
    \/ \E c \in Callers :
         \/ (ncalls < MaxCalls /\ \E cfg \in ConfigChoices : IoctlSetConfig(c, cfg))
         \/ IoctlSetThreshold(c)
         \/ IoctlSetMode(c)
         \/ (ncalls < MaxCalls /\ IoctlGetConfig(c))
         \/ IoctlGetThreshold(c)
         \/ \E ok \in BOOLEAN : IoctlGetMode(c, ok)
         \/ (ncalls < MaxCalls /\ ~enabled /\ IoctlEnable(c))
         \/ IoctlEnableStart(c)
    \/ \E s \in Writers :
         \/ (ncalls < MaxCalls /\ \E w \in SamplingWrites : sampling_ms_store(s, w))
         \/ (ncalls < MaxCalls /\ \E w \in ThresholdWrites : threshold_mC_store(s, w))
         \/ (ncalls < MaxCalls /\ \E w \in ModeWrites : mode_store(s, w))
         \/ (ncalls < MaxCalls /\ sampling_ms_show(s))
         \/ (ncalls < MaxCalls /\ threshold_mC_show(s))
         \/ (ncalls < MaxCalls /\ mode_show(s))

SpecCfg == Init /\ [][NextCfg]_vars

\* The waveform over a whole period: the mode is left normal or set to ramp
\* through the mode attribute, then the device is enabled, and one blocking
\* reader takes every sample before the next tick (the buffer never
\* overflows)
NextWave ==
    \/ \E w \in ModeWrites :
         /\ w.value = SIMTEMP_MODE_RAMP /\ mode # SIMTEMP_MODE_RAMP
         /\ ~enabled
         /\ mode_store("s1", w)
    \/ (~enabled /\ IoctlEnable("c1"))
    \/ IoctlEnableStart("c1")
    \/ ( /\ Committed < WaveTicks
         /\ Len(popped) = counter /\ ~work_pending /\ wpc = "idle"
         /\ simtemp_timer_callback )
    \/ Worker
    \/ ReadBegin("r1", FALSE, SAMPLE_SIZE)
    \/ ReaderStep("r1")

SpecWave == Init /\ [][NextWave]_vars

\* Readiness and statistics: a device probed from a device-tree node, the
\* producer, two threads that poll and read without blocking, and one ioctl
\* caller issuing enable, reset-statistics and unrecognized command codes
NextPoll ==
    \/ (Committed < MaxTicks /\ simtemp_timer_callback)
    \/ Worker
    \/ \E r \in Readers :
         \/ (ncalls < MaxCalls /\ PollBegin(r))
         \/ PollerStep(r)
         \/ (ncalls < MaxCalls /\ ReadBegin(r, TRUE, SAMPLE_SIZE))
         \/ ReadCount(r)
         \/ ReadCheck(r)
         \/ ReadGet(r)
         \/ ReadGetCommit(r)
         \/ \E ok \in BOOLEAN : ReadCopy(r, ok)
    \/ (ncalls < MaxCalls /\ ~enabled /\ IoctlEnable("c1"))
    \/ IoctlEnableStart("c1")
    \/ (ncalls < MaxCalls /\ \E cmd \in IoctlCommands : simtemp_ioctl("c1", cmd))

SpecPoll == InitDT /\ [][NextPoll]_vars

\* The waveform generator as a function: one run of
\* simtemp_generate_sample from each state of InitGen
NextGen ==
    \/ GenCompute
    \/ GenPut
    \/ GenPutCommit
    \/ GenFinish

SpecGen == InitGen /\ [][NextGen]_vars

\* Progress of blocked reads: the producer, two threads issuing blocking
\* reads, one ioctl caller issuing disable and another issuing enable.  The
\* timer fires, the worker runs, a reader inside simtemp_read goes on, and a
\* command that has begun is carried through.
NextFair ==
    \/ (Committed < MaxTicks /\ simtemp_timer_callback)
    \/ Worker
    \/ \E r \in Readers :
         \/ (ncalls < MaxCalls /\ ReadBegin(r, FALSE, SAMPLE_SIZE))
         \/ ReaderStep(r)
    \/ (ncalls < MaxCalls /\ IoctlDisable("c1"))
    \/ IoctlDisableCancel("c1")
    \/ (ncalls < MaxCalls /\ IoctlEnable("c2"))
    \/ IoctlEnableStart("c2")

\* the scheduling NextFair is run under: the timer, the workqueue and every
\* thread inside the driver eventually take their next step
Fairness ==
    /\ WF_vars(Committed < MaxTicks /\ simtemp_timer_callback)
    /\ WF_vars(Worker)
    /\ \A r \in Readers : WF_vars(ReaderStep(r))
    /\ WF_vars(IoctlDisableCancel("c1"))
    /\ WF_vars(IoctlEnableStart("c2"))

SpecFair == Init /\ [][NextFair]_vars /\ Fairness

\* the steps of the threads that are inside the driver: everything but the
\* timer expiry and the entry of a call
Continue ==
    \/ Worker
    \/ \E r \in Readers : ReaderStep(r) \/ PollerStep(r)
    \/ \E c \in Callers : IoctlSetThreshold(c) \/ IoctlSetMode(c)
    \/ \E s \in Writers : EnabledStoreStart(s) \/ EnabledStoreCancel(s)

\* The two locks: the producer, two threads that read and poll, one ioctl
\* caller issuing the set-configuration of the ramp, and one writer storing
\* the enabled attribute and 40000 to threshold_mC
NextLock ==
    \/ (Committed < MaxSamples /\ simtemp_timer_callback)
    \/ Continue
    \/ \E r \in Readers :
         \/ (ncalls < MaxCalls /\ \E nb \in BOOLEAN : ReadBegin(r, nb, SAMPLE_SIZE))
         \/ (ncalls < MaxCalls /\ PollBegin(r))
    \/ ( /\ ncalls < MaxCalls
         /\ \E cfg \in ConfigChoices :
              cfg.mode = SIMTEMP_MODE_RAMP /\ IoctlSetConfig("c1", cfg) )
    \/ \E s \in Writers :
         \/ (ncalls < MaxCalls /\ \E val \in BOOLEAN : EnabledStore(s, val))
         \/ ( /\ ncalls < MaxCalls
              /\ \E w \in ThresholdWrites :
                   w.value = 40000 /\ threshold_mC_store(s, w) )

SpecLock == Init /\ [][NextLock]_vars

\* The threshold written during a tick: the producer with the threshold
\* test spread over two instants, one enable command, and one writer
\* storing threshold_mC, at most once while a test is in progress
NextTorn ==
    \/ (Committed < MaxTicks /\ simtemp_timer_callback)
    \/ simtemp_sample_work
    \/ GenLoad
    \/ GenTest
    \/ GenPut
    \/ GenPutCommit
    \/ GenFinish
    \/ (~enabled /\ IoctlEnable("c1"))
    \/ IoctlEnableStart("c1")
    \/ \E s \in Writers :
         /\ ncalls < MaxCalls
         /\ wpc = "test" => w_thr = threshold_mC
         /\ \E w \in ThresholdWrites : threshold_mC_store(s, w)

SpecTorn == Init /\ [][NextTorn]_vars

\* The expiries of the timer: the producer with the expiries counted, one
\* enable command, and one thread reading without blocking; the device is
\* never disabled
NextTick ==
    \/ (nexp < MaxTicks /\ TimerExpiry)
    \/ Worker
    \/ (~enabled /\ IoctlEnable("c1"))
    \/ IoctlEnableStart("c1")
    \/ (ncalls < MaxCalls /\ ReadBegin("r1", TRUE, SAMPLE_SIZE))
    \/ NonBlockingStep("r1")

SpecTick == Init /\ [][NextTick]_vars

\* Flush against pushes and pops: the device is enabled by the first call;
\* then the producer, two threads reading without blocking, and one ioctl
\* caller issuing flush-buffer
NextFlush ==
    \/ (Committed < MaxSamples /\ simtemp_timer_callback)
    \/ Worker
    \/ (ncalls = 0 /\ IoctlEnable("c1"))
    \/ IoctlEnableStart("c1")
    \/ \E r \in Readers :
         \/ (ncalls <= MaxCalls /\ ReadBegin(r, TRUE, SAMPLE_SIZE))
         \/ NonBlockingStep(r)
    \/ (ncalls <= MaxCalls /\ IoctlFlush("c1"))
    \/ IoctlFlushIn("c1")

SpecFlush == Init /\ [][NextFlush]_vars

\* Teardown with readers inside simtemp_read: the producer, blocking reads
\* begun before teardown, one enable command, and simtemp_remove, which
\* starts when every reader is outside the driver or in the wait
NextDown ==
    \/ (Committed < MaxTicks /\ simtemp_timer_callback)
    \/ Worker
    \/ \E r \in Readers :
         \/ (rmpc = "idle" /\ ncalls < MaxCalls /\ ReadBegin(r, FALSE, SAMPLE_SIZE))
         \/ ReaderStep(r)
    \/ (rmpc = "idle" /\ ncalls < MaxCalls /\ IoctlEnable("c1"))
    \/ IoctlEnableStart("c1")
    \/ ((\A r \in Readers : rpc[r] \in {"idle", "wait"}) /\ RemoveDisable)
    \/ RemoveCancelTimer
    \/ RemoveCancelWork
    \/ RemoveWake
    \/ RemoveUnregister

SpecDown == Init /\ [][NextDown]_vars


\* ------------------------------------------------------------------------
\* Properties

\* sequence p is an initial segment of sequence q
IsPrefix(p, q) ==
    /\ Len(p) <= Len(q)
    /\ \A i \in 1 .. Len(p) : p[i] = q[i]

\* the THRESHOLD_CROSSED bit of a flags word
HasCrossedFlag(f) ==
    (f \div SIMTEMP_FLAG_THRESHOLD_CROSSED) % 2 = 1

\* reader r has taken a sample out of the buffer in its current or last read
Took(r) ==
    \/ rpc[r] \in {"get2", "copy"}
    \/ rpc[r] = "idle" /\ rret[r] \in {"sample", "EFAULT"}

\* the monotonic counters of struct simtemp_stats
StatCounters == {"updates", "alerts", "read_calls", "poll_calls"}

\* the configuration fields
ConfigFields == {"sampling_ms", "threshold_mC", "mode"}

\* the decimal text of the numbers the attribute writes denote
DecimalText(v) ==
    CASE v = 200   -> <<"2", "0", "0">>
      [] v = 50    -> <<"5", "0">>
      [] v = 40000 -> <<"4", "0", "0", "0", "0">>
      [] v = -5    -> <<"-", "5">>
      [] OTHER     -> <<"?">>

\* the word of a mode
ModeWord(v) ==
    CASE v = SIMTEMP_MODE_NORMAL -> <<"n", "o", "r", "m", "a", "l">>
      [] v = SIMTEMP_MODE_NOISY  -> <<"n", "o", "i", "s", "y">>
      [] v = SIMTEMP_MODE_RAMP   -> <<"r", "a", "m", "p">>
      [] OTHER                   -> <<"?">>

\* the configurations that were the whole configuration at some time when
\* only set-configuration commands write: the one of simtemp_probe and the
\* accepted candidates
WholeConfigs ==
    { [sampling_ms |-> SIMTEMP_DEFAULT_SAMPLING_MS,
       threshold_mC |-> SIMTEMP_DEFAULT_THRESHOLD_MC,
       mode |-> SIMTEMP_MODE_NORMAL] }
    \cup { cfg \in ConfigChoices :
             /\ cfg.sampling_ms \in SIMTEMP_MIN_SAMPLING_MS .. SIMTEMP_MAX_SAMPLING_MS
             /\ cfg.mode \in {SIMTEMP_MODE_NORMAL, SIMTEMP_MODE_NOISY,
                              SIMTEMP_MODE_RAMP} }

\* C1: strict FIFO.  The samples handed out by kfifo_get, in the order of the
\* reads, are an initial segment of the samples kfifo_put accepted, in the
\* order of the pushes (so each read returns the oldest sample still in the
\* buffer), and the accepted samples carry their production order in their
\* timestamps.
C1_StrictFifo ==
    /\ IsPrefix(popped, pushed)
    /\ \A i \in 1 .. Len(pushed) : \A j \in 1 .. Len(pushed) :
         i < j => pushed[i].timestamp_ns < pushed[j].timestamp_ns

\* C1 witness: SIMTEMP_BUFFER_SIZE pushes filled the buffer (the next push
\* was rejected, so no read had taken place), and then as many reads
\* emptied it.
C1_Witness ==
    /\ stats.last_error = -EOVERFLOW
    /\ Len(pushed) = SIMTEMP_BUFFER_SIZE
    /\ Len(popped) = SIMTEMP_BUFFER_SIZE
    /\ rpc["r1"] = "idle" /\ rret["r1"] = "sample"

\* C2: a push into a full buffer leaves the indices and the contents of the
\* buffer unchanged, and the statistics count it: when the generator
\* records the rejected push, one counter of the statistics (the
\* lost-sample counter) goes up by exactly one.
C2_FullPushCounted ==
    [][ /\ (wpc = "put" /\ wpc' = "finish")
            => (kfifo_in' = kfifo_in /\ kfifo_out' = kfifo_out
                /\ kfifo_data' = kfifo_data)
        /\ (wpc = "finish" /\ wpc' = "idle" /\ wret = 0)
            => \E f \in StatCounters : stats'[f] = stats[f] + 1
      ]_vars

\* C3: the occupancy kfifo_len(), an unsigned int, is at most
\* SIMTEMP_BUFFER_SIZE in every reachable state.
C3_OccupancyBound ==
    ~U32Gt(kfifo_len, SIMTEMP_BUFFER_SIZE)

C5_DisableReleasesReaders ==
    [][ \A c \in Callers :
          ( /\ cpc[c] = "dis_cancel" /\ cpc'[c] = "idle"
            /\ timer = "enqueued"
            /\ ~enabled' /\ ~work_pending' /\ wpc' = "idle" )
          => \A r \in Readers : ~(rpc'[r] = "wait" /\ ~awake'[r])
      ]_vars

\* C6: a non-blocking read that finds the buffer empty returns -EAGAIN in
\* that very step, without changing the buffer, the configuration or the
\* enabled flag; and a non-blocking reader is never in the wait.
C6_NonBlockingRead ==
    [][ \A r \in Readers :
          /\ (rpc[r] = "check" /\ rpc'[r] # "check" /\ rnonblock[r]
                /\ kfifo_is_empty)
             => /\ rpc'[r] = "idle" /\ rret'[r] = "EAGAIN"
                /\ kfifo_in' = kfifo_in /\ kfifo_out' = kfifo_out
                /\ kfifo_data' = kfifo_data
                /\ sampling_ms' = sampling_ms /\ threshold_mC' = threshold_mC
                /\ mode' = mode /\ enabled' = enabled
          /\ (rnonblock'[r] => rpc'[r] # "wait")
      ]_vars

\* C6 witness: a non-blocking read has returned -EAGAIN from an empty buffer
\* of an enabled device.
C6_Witness ==
    \E r \in Readers :
      /\ rpc[r] = "idle" /\ rret[r] = "EAGAIN" /\ rnonblock[r]
      /\ enabled /\ timer = "enqueued" /\ kfifo_is_empty

\* C7: a blocking read that found the buffer empty (no flush command
\* involved).  Before a push occurs it is still waiting, or was interrupted;
\* a sample it takes was pushed after it began to wait; when it is the read
\* that takes the next sample out, that sample is the first one pushed after
\* it began to wait; and it comes back empty-handed only when another read
\* took that sample.
C7_BlockingRead ==
    nflush = 0 =>
      \A r \in Readers :
        blockedAt[r] >= 0 =>
          /\ Len(pushed) = blockedAt[r]
               => (rpc[r] = "wait" \/ (rpc[r] = "idle" /\ rret[r] = "EINTR"))
          /\ Took(r)
               => \E j \in (blockedAt[r] + 1) .. Len(pushed) :
                     rsample[r] = pushed[j]
          /\ (Took(r) /\ Len(popped) = blockedAt[r] + 1)
               => rsample[r] = pushed[blockedAt[r] + 1]
          /\ (rpc[r] = "idle" /\ rret[r] \notin {"sample", "EFAULT", "EINTR"})
               => Len(popped) > blockedAt[r]

\* C7 witness: a read waited on the empty buffer, exactly one push occurred,
\* and the read returned that sample.
C7_Witness ==
    \E r \in Readers :
      /\ nflush = 0
      /\ blockedAt[r] >= 0
      /\ Len(pushed) = blockedAt[r] + 1
      /\ rpc[r] = "idle" /\ rret[r] = "sample"
      /\ rsample[r] = pushed[blockedAt[r] + 1]

\* C8: -EAGAIN (would-block) is returned only to non-blocking reads.
C8_WouldBlockOnlyNonBlocking ==
    \A r \in Readers :
      (rpc[r] = "idle" /\ rret[r] = "EAGAIN") => rnonblock[r]

\* C9: concurrent readers (no flush command involved).  No sample is handed
\* out twice, none is skipped, and the samples come out in production order:
\* the samples handed out, in pop order, are the accepted samples in push
\* order, with strictly increasing timestamps; two readers never hold the
\* same sample.
C9_ExactlyOneReader ==
    nflush = 0 =>
      /\ Len(popped) <= Len(pushed)
      /\ \A i \in 1 .. Len(popped) : popped[i] = pushed[i]
      /\ \A i \in 1 .. Len(popped) : \A j \in 1 .. Len(popped) :
           i < j => popped[i].timestamp_ns < popped[j].timestamp_ns
      /\ \A r1 \in Readers : \A r2 \in Readers :
           (r1 # r2 /\ Took(r1) /\ Took(r2)) => rsample[r1] # rsample[r2]
      /\ \A r \in Readers :
           Took(r) => \E i \in 1 .. Len(popped) : popped[i] = rsample[r]

\* C9 witness: two readers were inside kfifo_get one after the other and
\* each came back with a sample.
C9_Witness ==
    /\ nflush = 0
    /\ rpc["r1"] = "copy" /\ rpc["r2"] = "copy"
    /\ rsample["r1"].timestamp_ns > rsample["r2"].timestamp_ns
    /\ rsample["r2"].timestamp_ns > 0

\* C10: once simtemp_remove has returned, the timer is not pending and no
\* sample work is queued or running.
C10_QuietAfterRemove ==
    rmpc = "done" =>
      /\ timer = "inactive"
      /\ ~work_pending
      /\ wpc = "idle"

\* C11: teardown releases the blocked readers: once simtemp_remove has
\* returned, no reader that was in the wait of simtemp_read when teardown
\* began is asleep in that wait (it has returned to its caller).
C11_TeardownReleasesReaders ==
    rmpc = "done" =>
      \A r \in Readers : ~(rpc[r] = "wait" /\ ~awake[r])

\* C12: a configuration write that fails its validation changes nothing: the
\* step in which a set-configuration command or an attribute store returns
\* an error leaves sampling_ms, threshold_mC, mode and enabled as they were;
\* and no write of an interval outside [1, 10000] or of a mode other than
\* normal, noisy, ramp is ever accepted.
C12_RejectedWriteChangesNothing ==
    [][ /\ ( /\ ncalls' = ncalls + 1
             /\ \/ /\ lastcall' \in Callers
                   /\ ccmd'[lastcall'] = "SET_CONFIG"
                   /\ cret'[lastcall'] = "EINVAL"
                \/ /\ lastcall' \in Writers
                   /\ sret'[lastcall'] = "EINVAL" )
           => /\ sampling_ms' = sampling_ms /\ threshold_mC' = threshold_mC
              /\ mode' = mode /\ enabled' = enabled
        /\ \A t \in Callers \cup Writers :
             /\ Len(mine'[t].sampling_ms) = 1
                  => mine'[t].sampling_ms[1] \in 1 .. 10000
             /\ Len(mine'[t].mode) = 1
                  => mine'[t].mode[1] \in {SIMTEMP_MODE_NORMAL, SIMTEMP_MODE_NOISY,
                                           SIMTEMP_MODE_RAMP}
      ]_vars

\* C12 witness: after an accepted store of 200 to sampling_ms, a
\* set-configuration with an invalid mode and a store of an out-of-range
\* interval were both rejected.
C12_Witness ==
    /\ sampling_ms = 200
    /\ \E c \in Callers :
         /\ cpc[c] = "idle" /\ ccmd[c] = "SET_CONFIG" /\ cret[c] = "EINVAL"
         /\ ccfg[c].mode = SIMTEMP_MODE_MAX
    /\ \E s \in Writers :
         /\ sret[s] = "EINVAL" /\ kstrtouint(sbuf[s]).err = "ok"

\* C13: in every reachable state the interval is within [1, 10000] and the
\* mode is one of normal, noisy, ramp.
C13_ConfigInRange ==
    /\ sampling_ms \in SIMTEMP_MIN_SAMPLING_MS .. SIMTEMP_MAX_SAMPLING_MS
    /\ mode \in {SIMTEMP_MODE_NORMAL, SIMTEMP_MODE_NOISY, SIMTEMP_MODE_RAMP}

\* C14: round trip.  A get-configuration returns, for every field the
\* caller itself stored last with no other writer since, exactly the value
\* it set; and a show of an attribute returns the decimal text (the word,
\* for the mode) of the value the same writer stored last, and a newline.
C14_RoundTrip ==
    [][ /\ \A c \in Callers :
             (cpc[c] = "get_mode" /\ cpc'[c] = "idle" /\ cret'[c] = "ok")
               => \A f \in ConfigFields :
                    Len(mine[c][f]) = 1 => ccfg'[c][f] = mine[c][f][1]
        /\ \A s \in Writers :
             (ncalls' = ncalls + 1 /\ lastcall' = s) =>
               /\ (sret'[s] = "sampling_ms" /\ Len(mine[s].sampling_ms) = 1)
                    => sbuf'[s] = DecimalText(mine[s].sampling_ms[1]) \o <<"\n">>
               /\ (sret'[s] = "threshold_mC" /\ Len(mine[s].threshold_mC) = 1)
                    => sbuf'[s] = DecimalText(mine[s].threshold_mC[1]) \o <<"\n">>
               /\ (sret'[s] = "mode" /\ Len(mine[s].mode) = 1)
                    => sbuf'[s] = ModeWord(mine[s].mode[1]) \o <<"\n">>
      ]_vars

\* C14 witness: a caller set the ramp configuration and its next command, a
\* get-configuration, returned it, no other thread having written.
C14_Witness ==
    \E c \in Callers :
      /\ cpc[c] = "idle" /\ ccmd[c] = "GET_CONFIG" /\ cret[c] = "ok"
      /\ \A f \in ConfigFields : mine[c][f] = <<ccfg[c][f]>>
      /\ ccfg[c] = [sampling_ms |-> 50, threshold_mC |-> 26910,
                    mode |-> SIMTEMP_MODE_RAMP]

\* C15: get-configuration is atomic against set-configuration: while only
\* set-configuration commands have written the configuration, the triple a
\* get-configuration returns is one of the whole configurations (the
\* initial one or an accepted candidate), never a mixture of two.
C15_AtomicGet ==
    [][ \A c \in Callers :
          ( /\ cpc[c] = "get_mode" /\ cpc'[c] = "idle" /\ cret'[c] = "ok"
            /\ \A s \in Writers : sret[s] = "none" )
          => ccfg'[c] \in WholeConfigs
      ]_vars

\* C16: a change of the interval while the device is armed reschedules the
\* pending tick: whenever the device is armed and no control command or
\* attribute access is in progress, the pending tick is armed with the
\* current sampling_ms.
C16_RescheduleOnChange ==
    ( /\ enabled /\ timer = "enqueued"
      /\ \A c \in Callers : cpc[c] = "idle"
      /\ \A s \in Writers : spc[s] = "idle" )
    => timer_ms = sampling_ms

\* C17: overflow is not fatal.  The steps of a rejected push change neither
\* enabled nor the timer; after an overflow the timer of the enabled device
\* is still pending; and a push that finds fewer than SIMTEMP_BUFFER_SIZE
\* samples in the buffer is accepted, whatever happened before.
C17_OverflowNotFatal ==
    [][ /\ ( \/ (wpc = "put" /\ wpc' = "finish")
             \/ (wpc = "finish" /\ wret = 0 /\ wpc' = "idle") )
           => /\ enabled' = enabled
              /\ timer' = timer /\ timer_ms' = timer_ms
        /\ (stats'.last_error = -EOVERFLOW /\ enabled') => timer' = "enqueued"
        /\ ( /\ wpc = "put" /\ wpc' # "put"
             /\ kfifo_in - kfifo_out \in 0 .. (SIMTEMP_BUFFER_SIZE - 1) )
           => (wpc' = "put2" /\ kfifo_data'[KfifoMask(kfifo_in)] = wsample)
      ]_vars

\* C17 witness: a push was rejected, a read freed a slot, and the next push
\* was accepted.
C17_Witness ==
    /\ stats.last_error = -EOVERFLOW
    /\ Len(pushed) = SIMTEMP_BUFFER_SIZE + 1
    /\ Len(popped) >= 1
    /\ wpc = "idle"

\* C18: the alert counter counts accepted samples only: when the generator
\* is at rest (no statistics reset having occurred), alerts equals the
\* number of accepted samples that carry THRESHOLD_CROSSED, and updates the
\* number of accepted samples.
C18_AlertsCountAccepted ==
    wpc = "idle" =>
      /\ stats.updates = Len(pushed)
      /\ stats.alerts
           = Cardinality({ i \in 1 .. Len(pushed) : HasCrossedFlag(pushed[i].flags) })

\* C19: the ramp.  Every sample generated in ramp mode has the temperature
\* base + k * range / 100 when k <= 100 and base + (200 - k) * range / 100
\* when k > 100, for k = counter mod 200, base 25000 and range 30000.
C19_RampShape ==
    [][ (wpc = "compute" /\ wpc' = "put" /\ mode = SIMTEMP_MODE_RAMP) =>
          LET k == counter % 200
          IN  wsample'.temp_mC
                = 25000 + (IF k <= 100 THEN (k * 30000) \div 100
                           ELSE ((200 - k) * 30000) \div 100)
      ]_vars

\* C20: with threshold 45000 and mode ramp, and no overflow, every 200
\* consecutive samples contain exactly two that carry THRESHOLD_CROSSED.
C20_TwoCrossingsPerPeriod ==
    ( /\ mode = SIMTEMP_MODE_RAMP /\ threshold_mC = 45000
      /\ stats.last_error = 0 )
    => \A i \in 1 .. (Len(pushed) - 199) :
         Cardinality({ j \in i .. (i + 199) : HasCrossedFlag(pushed[j].flags) }) = 2

\* the angle of the i-th generated sample: (counter * 300) mod 6280 with
\* counter = i - 1
AngleOf(i) ==
    ((i - 1) * 300) % 6280

\* the sine approximation of the i-th accepted sample in normal mode, from
\* temperature = base + 10000 * sine_approx / 1000
SineOf(i) ==
    CDiv(pushed[i].temp_mC - SIMTEMP_BASE_TEMP_MC, 10)

\* samples x and y, the angle of x not above the angle of y, lie on a
\* triangle wave: rising below 1570, falling from 1570 to 4710, rising
\* from 4710 on, and without a jump at 4710
OnTriangle(x, y) ==
    /\ AngleOf(y) < 1570 => SineOf(x) <= SineOf(y)
    /\ (1570 <= AngleOf(x) /\ AngleOf(y) < 4710) => SineOf(x) >= SineOf(y)
    /\ 4710 <= AngleOf(x) => SineOf(x) <= SineOf(y)
    /\ (AngleOf(x) < 4710 /\ 4710 <= AngleOf(y) /\ AngleOf(y) - AngleOf(x) <= 20)
         => (SineOf(y) - SineOf(x) \in -20 .. 20)

\* C21: the sine approximation of normal mode is a triangle wave bounded by
\* +/-1000.  Among the samples generated in normal mode (none lost), the
\* sine approximation lies in -1000 .. 1000, does not fall as the angle
\* grows below 1570, does not rise as it grows from 1570 to 4710, does not
\* fall as it grows from 4710 on, and does not jump at 4710.
C21_SineTriangle ==
    (mode = SIMTEMP_MODE_NORMAL /\ stats.last_error = 0 /\ Len(pushed) >= 1)
    => LET n == Len(pushed)
       IN  /\ SineOf(n) \in -1000 .. 1000
           /\ \A i \in 1 .. (n - 1) :
                IF AngleOf(i) <= AngleOf(n) THEN OnTriangle(i, n)
                ELSE OnTriangle(n, i)

\* the sine-based temperature of noisy mode for the counter value cnt
NoisySineTemp(cnt) ==
    SIMTEMP_BASE_TEMP_MC
      + CDiv(SIMTEMP_TEMP_RANGE_MC * SineApprox(CMod(Mul300(cnt), 6280)), 1000)

\* C22: in noisy mode the offset added to the sine-based temperature lies
\* in [0, noise_range) = 0 .. 1999 for every random draw; it is never
\* negative.
C22_NoiseOneSided ==
    [][ (wpc = "compute" /\ wpc' = "put" /\ mode = SIMTEMP_MODE_NOISY) =>
          (wsample'.temp_mC - NoisySineTemp(counter))
             \in 0 .. (SIMTEMP_NOISE_RANGE_MC - 1)
      ]_vars

C24_PollFrame ==
    [][ \A r \in Readers :
          /\ (rpc[r] = "idle" /\ rpc'[r] = "pcount")
               => UNCHANGED <<fifoVars, cfgVars, popped>>
          /\ (rpc[r] = "pcount" /\ rpc'[r] = "pmask")
               => /\ stats'.poll_calls = stats.poll_calls + 1
                  /\ UNCHANGED <<fifoVars, cfgVars, popped>>
          /\ (rpc[r] = "pmask" /\ rpc'[r] = "idle")
               => /\ ("EPOLLIN" \in pmask'[r]) <=> (kfifo_in # kfifo_out)
                  /\ UNCHANGED <<fifoVars, cfgVars, popped>>
      ]_vars

\* the samples in the buffer: buf[out & mask] .. buf[(in - 1) & mask]
Buffered ==
    { kfifo_data[KfifoMask(kfifo_out + k)] : k \in 0 .. (kfifo_len - 1) }

\* C25: when a threshold crossing has occurred (the buffer holds a sample
\* that carries THRESHOLD_CROSSED), a readiness poll reports EPOLLPRI in
\* addition to EPOLLIN.
C25_PollUrgent ==
    [][ \A r \in Readers :
          ( /\ rpc[r] = "pmask" /\ rpc'[r] = "idle"
            /\ \E smp \in Buffered : HasCrossedFlag(smp.flags) )
          => {"EPOLLIN", "EPOLLPRI"} \subseteq pmask'[r]
      ]_vars

\* C26: a read request for fewer than 16 bytes is rejected with -EINVAL
\* whatever the buffer holds and whatever the blocking mode: neither step
\* of the call changes the buffer or hands out a sample, and the call ends
\* at the size test without entering the wait.
C26_ShortReadRejected ==
    [][ \A r \in Readers :
          /\ (rpc[r] = "idle" /\ rpc'[r] = "count" /\ rcount'[r] < SAMPLE_SIZE)
               => UNCHANGED <<fifoVars, popped>>
          /\ (rpc[r] = "count" /\ rpc'[r] # "count" /\ rcount[r] < SAMPLE_SIZE)
               => /\ rpc'[r] = "idle" /\ rret'[r] = "EINVAL"
                  /\ blockedAt'[r] = -1
                  /\ UNCHANGED <<fifoVars, popped>>
      ]_vars

\* C26 witness: a blocking read of 8 bytes has returned -EINVAL while the
\* buffer of the enabled device held a sample.
C26_Witness ==
    \E r \in Readers :
      /\ rpc[r] = "idle" /\ rret[r] = "EINVAL"
      /\ ~rnonblock[r] /\ ~kfifo_is_empty /\ enabled
      /\ popped = <<>>

\* C27: a read that fails with -EFAULT leaves the buffer as the call found
\* it: when the call returns, the sample it was to deliver is still in the
\* buffer, available to the next read.
C27_FaultKeepsSample ==
    [][ \A r \in Readers :
          (rpc[r] = "copy" /\ rpc'[r] = "idle" /\ rret'[r] = "EFAULT")
          => rsample[r] \in { kfifo_data'[KfifoMask(kfifo_out' + k)] :
                                k \in 0 .. (kfifo_in' - kfifo_out' - 1) }
      ]_vars

\* the command codes of the seven commands
DefinedCommands ==
    { SIMTEMP_IOC_GET_CONFIG, SIMTEMP_IOC_SET_CONFIG, SIMTEMP_IOC_GET_STATS,
      SIMTEMP_IOC_RESET_STATS, SIMTEMP_IOC_ENABLE, SIMTEMP_IOC_DISABLE,
      SIMTEMP_IOC_FLUSH_BUFFER }

\* C28: a control command whose code has the wrong magic, a number above
\* the maximum, or matches no command returns -ENOTTY in the step that
\* issues it and leaves the configuration, the enabled flag, the buffer and
\* the statistics unchanged.
C28_UnknownCommand ==
    [][ \A c \in Callers :
          ( /\ lastcall' = c /\ ncalls' = ncalls + 1
            /\ \/ craw'[c].type # SIMTEMP_IOC_MAGIC
               \/ craw'[c].nr > SIMTEMP_IOC_MAXNR
               \/ craw'[c] \notin DefinedCommands )
          => /\ cret'[c] = "ENOTTY" /\ cpc'[c] = "idle"
             /\ UNCHANGED <<cfgVars, enabled, fifoVars, stats>>
      ]_vars

\* C28 witness: the number of RESET_STATS with the direction and size of
\* SET_CONFIG was rejected while the statistics were not zero and the
\* device was enabled.
C28_Witness ==
    \E c \in Callers :
      /\ cpc[c] = "idle" /\ cret[c] = "ENOTTY" /\ lastcall = c
      /\ craw[c] = IOC("W", SIMTEMP_IOC_MAGIC, 4, 16)
      /\ stats.updates >= 1 /\ enabled

\* the device has produced nothing and nothing is under way: it is
\* disabled and no enable is in progress, the timer is not armed, no work is
\* pending or running, the generator's counter is 0 and the buffer and the
\* sample counters are empty
NothingProduced ==
    /\ ~enabled /\ timer = "inactive" /\ ~work_pending /\ wpc = "idle"
    /\ \A c \in Callers : cpc[c] # "en_start"
    /\ \A s \in Writers : spc[s] # "start"
    /\ counter = 0 /\ pushed = <<>> /\ kfifo_is_empty
    /\ stats.updates = 0 /\ stats.alerts = 0

\* C29: right after creation without boot-time properties the device is
\* disabled, the timer is not armed, the buffer is empty, the statistics
\* are zero, and the configuration is 100 / 45000 / normal; and no sample
\* is produced until an enable: a step that does not set enabled leaves a
\* device that has produced nothing in that condition.
C29_CreationDefaults ==
    /\ ( /\ ~enabled /\ timer = "inactive" /\ kfifo_is_empty
         /\ stats = ZeroStats
         /\ sampling_ms = 100 /\ threshold_mC = 45000
         /\ mode = SIMTEMP_MODE_NORMAL )
    /\ [][ (NothingProduced /\ ~enabled') => NothingProduced' ]_vars

\* C29 witness: three calls later, one of which stored another sampling
\* period, the device has still produced nothing.
C29_Witness ==
    /\ NothingProduced
    /\ ncalls = MaxCalls
    /\ sampling_ms # SIMTEMP_DEFAULT_SAMPLING_MS

\* C30: the statistics counters updates, alerts, read_calls and poll_calls
\* never decrease, under any interleaving of ticks, reads and polls, except
\* in the step of a reset-statistics command.
C30_CountersMonotonic ==
    [][ (~ \E c \in Callers :
             /\ lastcall' = c /\ ncalls' = ncalls + 1
             /\ craw'[c] = SIMTEMP_IOC_RESET_STATS)
        => \A f \in StatCounters : stats'[f] >= stats[f]
      ]_vars

\* C31: liveness.  Under fair scheduling of the timer, the sample work and
\* the readers, a read does not stay in the wait of simtemp_read for ever
\* while the device stays enabled: every read blocked on the empty buffer
\* of a device that is enabled from then on eventually leaves the wait.
C31_BlockedReadReturns ==
    \A r \in Readers : []<>(~enabled \/ rpc[r] # "wait")

\* C32: configuration writers are mutually exclusive.  When every
\* set-configuration command has returned (and no attribute has been
\* written), the stored triple (sampling_ms, threshold_mC, mode) is the
\* whole candidate of one writer or the configuration of simtemp_probe,
\* never fields of two different candidates.
C32_WritersExclusive ==
    ( /\ \A c \in Callers : cpc[c] = "idle"
      /\ \A s \in Writers : sret[s] = "none" )
    => [sampling_ms |-> sampling_ms, threshold_mC |-> threshold_mC,
        mode |-> mode] \in WholeConfigs

\* C33: the producer state machine.  In every reachable state where no
\* enable, disable or teardown operation is in progress, the timer is
\* armed exactly when enabled is true: the device is never left enabled
\* with no pending tick, nor disabled with a pending tick.
C33_ArmedIffEnabled ==
    ( /\ \A c \in Callers : cpc[c] \notin {"en_start", "dis_cancel"}
      /\ \A s \in Writers : spc[s] \notin {"start", "cancel"}
      /\ rmpc \in {"idle", "done"} )
    => (timer = "enqueued" <=> enabled)

\* a thread is runnable inside the driver: the worker with work queued or
\* running, a reader or poller that is not asleep in the wait, a caller or
\* a writer in the middle of its operation
Runnable ==
    \/ work_pending \/ wpc # "idle"
    \/ \E r \in Readers : rpc[r] # "idle" /\ ~(rpc[r] = "wait" /\ ~awake[r])
    \/ \E c \in Callers : cpc[c] # "idle"
    \/ \E s \in Writers : spc[s] # "idle"

\* C34: lock ordering and deadlock freedom.  The holder of buffer_lock is
\* inside kfifo_put or kfifo_get and its next step, the release, waits for
\* nothing (it never asks for config_lock); the holder of config_lock is
\* inside enabled_store and its next step waits for nothing; buffer_lock
\* and config_lock are never held by the same thread; and whenever a thread
\* is runnable inside the driver, some thread can take a step.
C34_NoDeadlock ==
    /\ buffer_lock = "worker" => (wpc = "put2" /\ ENABLED GenPutCommit)
    /\ \A r \in Readers :
         buffer_lock = r => (rpc[r] = "get2" /\ ENABLED ReadGetCommit(r))
    /\ \A s \in Writers :
         config_lock = s
           => ENABLED (EnabledStoreStart(s) \/ EnabledStoreCancel(s))
    /\ buffer_lock = "free" \/ buffer_lock # config_lock
    /\ Runnable => ENABLED (simtemp_sample_work \/ Continue)

\* C34 witness: both locks are held at once, by different threads, while
\* the worker waits for buffer_lock.
C34_Witness ==
    \E r \in Readers : \E s \in Writers :
      /\ buffer_lock = r /\ config_lock = s
      /\ wpc = "put"

\* C35: each tick evaluates the crossing test against one snapshot of the
\* threshold.  Even when threshold_mC is written during the tick, the
\* THRESHOLD_CROSSED flag of the sample equals
\* (previous < t) # (current < t) for one value t that threshold_mC held
\* during the tick (the value at the first load, or the value after the
\* one store that is allowed in between).
C35_OneSnapshot ==
    [][ (wpc = "test" /\ wpc' = "put") =>
          \E t \in {w_thr, threshold_mC} :
             HasCrossedFlag(wsample'.flags)
               <=> ((last_temp_mC < t) # (wsample.temp_mC < t))
      ]_vars

\* C36: every expiry of the timer with the device enabled results in
\* exactly one execution of sample generation.  When the producer is at
\* rest (no work queued or running) on a device that was never disabled,
\* the number of generation attempts (accepted plus rejected pushes)
\* equals the number of expiries.
C36_OneGenerationPerExpiry ==
    (~work_pending /\ wpc = "idle") => counter = nexp

\* the device is disabled and no enable, disable or teardown is in
\* progress: every disable operation has returned and no enable has followed
DisabledAtRest ==
    /\ ~enabled
    /\ rmpc = "idle"
    /\ \A c \in Callers : cpc[c] \notin {"en_start", "dis_cancel"}
    /\ \A s \in Writers : spc[s] \notin {"start", "cancel"}

\* C37: once a disable operation has returned and no enable follows, the
\* generator pushes no further sample and changes no statistics counter,
\* not even through sample work that was queued or running when the
\* disable was issued: a step taken while the device stays disabled at
\* rest leaves the accepted samples, updates, alerts and last_error as
\* they were.
C37_QuietAfterDisable ==
    [][ (DisabledAtRest /\ DisabledAtRest')
        => /\ pushed' = pushed
           /\ stats'.updates = stats.updates
           /\ stats'.alerts = stats.alerts
           /\ stats'.last_error = stats.last_error
      ]_vars

\* C38: flush-buffer is safe against concurrent pushes and pops.  Under any
\* interleaving of the flush command with a push or a pop, no sample is
\* returned by two reads, and every sample a read returns is a sample the
\* generator pushed (after the last completed flush; the formula asks only
\* that it was pushed at all).
C38_FlushSafe ==
    /\ \A i \in 1 .. Len(popped) : \A j \in 1 .. Len(popped) :
         i < j => popped[i] # popped[j]
    /\ \A i \in 1 .. Len(popped) :
         \E j \in 1 .. Len(pushed) : popped[i] = pushed[j]

\* the pops that are complete: kfifo_get has advanced out
PopsDone ==
    Len(popped) - Cardinality({ r \in Readers : rpc[r] = "get2" })

\* C39: sample conservation.  In every reachable state where no sample
\* generation is in progress (and no reset-statistics or flush-buffer
\* command has been executed), the produced counter updates equals the
\* number of samples popped by reads plus the occupancy of the buffer.
C39_Conservation ==
    wpc = "idle" => stats.updates = PopsDone + kfifo_len

\* C39 witness: after a push was rejected by the full buffer, one read has
\* taken a sample and 63 samples are left.
C39_Witness ==
    /\ wpc = "idle"
    /\ stats.last_error = -EOVERFLOW
    /\ rpc["r1"] = "idle"
    /\ PopsDone = 1
    /\ kfifo_len = SIMTEMP_BUFFER_SIZE - 1

\* C40: in normal mode the temperature stays within
\* [base - 10000, base + 10000] = [15000, 35000] for every value of the
\* 32-bit counter, including the values for which counter * 300 wraps
\* around and the remainder is negative.
C40_NormalRange ==
    [][ (wpc = "compute" /\ wpc' = "put" /\ mode = SIMTEMP_MODE_NORMAL) =>
          wsample'.temp_mC \in 15000 .. 35000
      ]_vars

========================================================================
